---- MODULE Spec2Model ----
(***************************************************************************)
(* Verification model of the passkey (YubiKey) signing library:            *)
(*   - the versioned seed-phrase blob codec (passkeyDevice.ts),            *)
(*   - the authentication-response sanitizer (passkeyUtils.ts),            *)
(*   - the useWebWallet hook operations and the requests they send.        *)
(*                                                                         *)
(* Text is modelled as a sequence of character codes (ASCII), so that      *)
(* base64, splitting on the delimiter and mnemonic validation are computed *)
(* on the characters, as the code computes them.                           *)
(***************************************************************************)
EXTENDS Integers, Sequences, FiniteSets, TLC

(***************************************************************************)
(* Bounds of the model.                                                    *)
(***************************************************************************)
\* size of the mnemonic word list (bip39 has 2048 words)
NumWords == 3
\* largest number of '.'-separated segments of a decode input
MaxSegments == 3

(***************************************************************************)
(* Text helpers.                                                           *)
(***************************************************************************)
SPACE == <<32>>

RECURSIVE IndexOf(_, _, _)
\* String.prototype.indexOf for a one-character needle, from position i;
\* 0 when the character does not occur
IndexOf(s, c, i) ==
  IF i > Len(s) THEN 0
  ELSE IF s[i] = c THEN i
  ELSE IndexOf(s, c, i + 1)

RECURSIVE Split(_, _)
\* String.prototype.split(d) for a one-character delimiter: every
\* occurrence of d separates two segments
Split(s, d) ==
  LET i == IndexOf(s, d[1], 1)
  IN IF i = 0 THEN <<s>>
     ELSE <<SubSeq(s, 1, i - 1)>> \o Split(SubSeq(s, i + 1, Len(s)), d)

RECURSIVE Join(_, _)
Join(parts, d) ==
  IF Len(parts) = 0 THEN <<>>
  ELSE IF Len(parts) = 1 THEN parts[1]
  ELSE parts[1] \o d \o Join(Tail(parts), d)

(***************************************************************************)
(* base64 (RFC 4648, standard alphabet, '=' padding).                      *)
(***************************************************************************)
B64Char(i) ==
  IF i < 26 THEN 65 + i
  ELSE IF i < 52 THEN 97 + (i - 26)
  ELSE IF i < 62 THEN 48 + (i - 52)
  ELSE IF i = 62 THEN 43
  ELSE 47

B64Pad == 61

B64Index(c) ==
  IF c >= 65 /\ c <= 90 THEN c - 65
  ELSE IF c >= 97 /\ c <= 122 THEN c - 97 + 26
  ELSE IF c >= 48 /\ c <= 57 THEN c - 48 + 52
  ELSE IF c = 43 THEN 62
  ELSE IF c = 47 THEN 63
  ELSE 0

IsB64Char(c) ==
  \/ c >= 65 /\ c <= 90
  \/ c >= 97 /\ c <= 122
  \/ c >= 48 /\ c <= 57
  \/ c = 43
  \/ c = 47

RECURSIVE utf8ToBase64(_)
\* the text is ASCII, so its UTF-8 bytes are its character codes
utf8ToBase64(s) ==
  IF Len(s) = 0 THEN <<>>
  ELSE IF Len(s) = 1 THEN
    LET n == s[1] * 65536
    IN <<B64Char(n \div 262144), B64Char((n \div 4096) % 64), B64Pad, B64Pad>>
  ELSE IF Len(s) = 2 THEN
    LET n == s[1] * 65536 + s[2] * 256
    IN <<B64Char(n \div 262144), B64Char((n \div 4096) % 64),
         B64Char((n \div 64) % 64), B64Pad>>
  ELSE
    LET n == s[1] * 65536 + s[2] * 256 + s[3]
    IN <<B64Char(n \div 262144), B64Char((n \div 4096) % 64),
         B64Char((n \div 64) % 64), B64Char(n % 64)>>
       \o utf8ToBase64(SubSeq(s, 4, Len(s)))

\* well-formed base64 text: groups of four alphabet characters, padding
\* only at the end of the last group
IsBase64(s) ==
  /\ Len(s) % 4 = 0
  /\ \A i \in 1..Len(s) :
       \/ IsB64Char(s[i])
       \/ /\ s[i] = B64Pad
          /\ i >= Len(s) - 1
          /\ (i = Len(s) - 1 => s[Len(s)] = B64Pad)

RECURSIVE base64ToUtf8(_)
\* inverse of utf8ToBase64 on well-formed base64 text
base64ToUtf8(s) ==
  IF Len(s) < 4 THEN <<>>
  ELSE
    LET n == B64Index(s[1]) * 262144 + B64Index(s[2]) * 4096
             + (IF s[3] = B64Pad THEN 0 ELSE B64Index(s[3]) * 64)
             + (IF s[4] = B64Pad THEN 0 ELSE B64Index(s[4]))
        bytes == <<n \div 65536, (n \div 256) % 256, n % 256>>
        keep == IF s[3] = B64Pad THEN 1 ELSE IF s[4] = B64Pad THEN 2 ELSE 3
    IN SubSeq(bytes, 1, keep) \o base64ToUtf8(SubSeq(s, 5, Len(s)))

\* base64 text in the URL alphabet: '-' for '+', '_' for '/', no padding
base64ToBase64url(s) ==
  LET n == IF Len(s) >= 2 /\ s[Len(s) - 1] = B64Pad THEN Len(s) - 2
           ELSE IF Len(s) >= 1 /\ s[Len(s)] = B64Pad THEN Len(s) - 1
           ELSE Len(s)
  IN [i \in 1..n |-> IF s[i] = 43 THEN 45 ELSE IF s[i] = 47 THEN 95 ELSE s[i]]

\* normalizeBase64OrBase64UrlString without the padding
normalizeBase64OrBase64UrlString_noPad(s) ==
  [i \in 1..Len(s) |-> IF s[i] = 45 THEN 43 ELSE IF s[i] = 95 THEN 47 ELSE s[i]]

\* the text in the standard alphabet, padded to whole groups of four
normalizeBase64OrBase64UrlString(s) ==
  LET pad == (4 - (Len(s) % 4)) % 4
  IN [i \in 1..Len(s) |->
        IF s[i] = 45 THEN 43 ELSE IF s[i] = 95 THEN 47 ELSE s[i]]
     \o [i \in 1..pad |-> B64Pad]

\* the bytes base64 text stands for
base64ToUint8Array(s) == base64ToUtf8(s)

(***************************************************************************)
(* Mnemonics.  bip39.validateMnemonic accepts a phrase when it is a        *)
(* single-space separated list of words of the word list, of the right     *)
(* length, whose last word carries the checksum of the others.  The model  *)
(* keeps that structure on a small word list: words are the single letters *)
(* 'a', 'b', ..., a phrase has three words and the third is the checksum   *)
(* (sum of the indices of the first two, modulo the list size).            *)
(***************************************************************************)
Word(i) == <<96 + i>>

WordIndex(w) ==
  IF Len(w) = 1 /\ w[1] >= 97 /\ w[1] <= 96 + NumWords THEN w[1] - 96 ELSE 0

Checksum(i, j) == ((i + j) % NumWords) + 1

validateMnemonic(text) ==
  LET words == Split(text, SPACE)
  IN /\ Len(words) = 3
     /\ \A k \in 1..3 : WordIndex(words[k]) # 0
     /\ WordIndex(words[3]) = Checksum(WordIndex(words[1]), WordIndex(words[2]))

\* the phrases bip39.generateMnemonic can return
Mnemonics ==
  { Join(<<Word(i), Word(j), Word(Checksum(i, j))>>, SPACE) :
      i \in 1..NumWords, j \in 1..NumWords }

(***************************************************************************)
(* Errors.  A thrown value is an Error with a message; a PasskeyError      *)
(* also carries a code of PasskeyErrorCodes.                               *)
(***************************************************************************)
FAILED_READ == "UNABLE_TO_READ"
FAILED_WRITE == "UNABLE_TO_WRITE"
USER_EXITED == "USER_EXITED"
INCORRECT_STATE == "INCORRECT_STATE"
UNAUTHORIZED == "UNAUTHORIZED"
UNABLE_TO_CONNECT == "UNABLE_TO_CONNECT"
UNKNOWN == "UNKNOWN"

NoError == [name |-> "none", code |-> "none", message |-> "none"]
PlainError(message) == [name |-> "Error", code |-> "none", message |-> message]
PasskeyError(message, code) ==
  [name |-> "PasskeyError", code |-> code, message |-> message]
\* thrown by the runtime on a property access on undefined or null, and by
\* a library on an argument of the wrong form
TypeError == [name |-> "TypeError", code |-> "none", message |-> "none"]

(***************************************************************************)
(* The blob codec (passkeyDevice.ts).                                      *)
(***************************************************************************)
PasskeyBlobVersion_V1 == <<86, 49>>
SEED_VERSION_DELIMITER == <<46>>
BLOB_VERSION_CURRENT == PasskeyBlobVersion_V1

isValidSeedPhrase(seedPhrase) == validateMnemonic(seedPhrase)

\* result of a codec call: a returned value or a thrown error
CodecReturn(text, hasVersion, version, warned) ==
  [st |-> "return", text |-> text, hasVersion |-> hasVersion,
   version |-> version, warned |-> warned, error |-> NoError]
CodecThrow(error) ==
  [st |-> "throw", text |-> <<>>, hasVersion |-> FALSE,
   version |-> <<>>, warned |-> FALSE, error |-> error]
NoCodecResult ==
  [st |-> "none", text |-> <<>>, hasVersion |-> FALSE,
   version |-> <<>>, warned |-> FALSE, error |-> NoError]

\* encodeSeedPhrase with the version switch ahead of the validation
encodeSeedPhrase_versionFirst(seedPhrase, blobVersion) ==
  IF blobVersion # PasskeyBlobVersion_V1
  THEN CodecThrow(PlainError("Unsupported seed phrase version"))
  ELSE IF ~isValidSeedPhrase(seedPhrase)
  THEN CodecThrow(PlainError("Invalid seed phrase"))
  ELSE CodecReturn(utf8ToBase64(seedPhrase) \o SEED_VERSION_DELIMITER \o blobVersion,
                   TRUE, blobVersion, FALSE)

encodeSeedPhrase(seedPhrase, blobVersion) ==
  IF ~isValidSeedPhrase(seedPhrase)
  THEN CodecThrow(PlainError("Invalid seed phrase"))
  ELSE IF blobVersion = PasskeyBlobVersion_V1
  THEN CodecReturn(utf8ToBase64(seedPhrase) \o SEED_VERSION_DELIMITER \o blobVersion,
                   TRUE, blobVersion, FALSE)
  ELSE CodecThrow(PlainError("Unsupported seed phrase version"))

\* decodeSeedPhrase returning the payload without base64ToUtf8
decodeSeedPhrase_noDecode(encodedSeedPhrase) ==
  IF isValidSeedPhrase(encodedSeedPhrase)
  THEN CodecReturn(encodedSeedPhrase, FALSE, <<>>, TRUE)
  ELSE
    LET parts == Split(encodedSeedPhrase, SEED_VERSION_DELIMITER)
    IN IF Len(parts) < 2 \/ parts[2] # PasskeyBlobVersion_V1
       THEN CodecThrow(PlainError("Unsupported seed phrase version"))
       ELSE CodecReturn(parts[1], TRUE, parts[2], FALSE)

\* decodeSeedPhrase without the branch of the unversioned seed phrase
decodeSeedPhrase_noLegacy(encodedSeedPhrase) ==
  LET parts == Split(encodedSeedPhrase, SEED_VERSION_DELIMITER)
      base64Seed == parts[1]
  IN IF Len(parts) < 2 \/ parts[2] # PasskeyBlobVersion_V1
     THEN CodecThrow(PlainError("Unsupported seed phrase version"))
     ELSE CodecReturn(base64ToUtf8(base64Seed), TRUE, parts[2], FALSE)

\* const [base64Seed, version] = encodedSeedPhrase.split(SEED_VERSION_DELIMITER)
\* takes the first two segments; version is undefined when there is one
decodeSeedPhrase(encodedSeedPhrase) ==
  IF isValidSeedPhrase(encodedSeedPhrase)
  THEN CodecReturn(encodedSeedPhrase, FALSE, <<>>, TRUE)
  ELSE
    LET parts == Split(encodedSeedPhrase, SEED_VERSION_DELIMITER)
        base64Seed == parts[1]
    IN IF Len(parts) < 2 \/ parts[2] # PasskeyBlobVersion_V1
       THEN CodecThrow(PlainError("Unsupported seed phrase version"))
       ELSE CodecReturn(base64ToUtf8(base64Seed), TRUE, parts[2], FALSE)

(***************************************************************************)
(* JavaScript values of the ceremony results (passkeyUtils.ts).            *)
(* A property of an object is "missing" (no such key), "undefined" (key    *)
(* present, value undefined) or holds a value.  A Buffer is kept apart     *)
(* from text: [bytes |-> ...].                                             *)
(***************************************************************************)
Buffer(b) == [bytes |-> b]
MissingBuffer == [st |-> "missing", buf |-> Buffer(<<>>)]
SomeBuffer(b) == [st |-> "value", buf |-> Buffer(b)]

MissingText == [st |-> "missing", text |-> <<>>]
SomeText(t) == [st |-> "value", text |-> t]

\* TextDecoder: the bytes are ASCII, each byte is one character
arrayBufferToPlaintext(buf) == buf.bytes
\* TextEncoder
stringToArrayBuffer(text) == Buffer(text)
\* arrayBufferToBase64String returning the bytes as text
arrayBufferToBase64String_plain(buf) == buf.bytes
arrayBufferToBase64String(buf) == utf8ToBase64(buf.bytes)

\* largeBlob extension output: { blob?: Buffer, written?: boolean }
LargeBlobOutput(st, blob, written) ==
  [st |-> st, blob |-> blob, written |-> written]
MissingLargeBlob == LargeBlobOutput("missing", MissingBuffer, "missing")
UndefinedLargeBlob == LargeBlobOutput("undefined", MissingBuffer, "missing")

\* prf extension output: { results?: { first?: Buffer } }
PrfOutput(st, results, first) ==
  [st |-> st, results |-> results, first |-> first]
MissingPrf == PrfOutput("missing", "missing", MissingBuffer)
UndefinedPrf == PrfOutput("undefined", "missing", MissingBuffer)

\* largeBlob?.blob == null
BlobIsNull(largeBlob) == largeBlob.st # "object" \/ largeBlob.blob.st # "value"
\* prf?.results?.first == null
PrfFirstIsNull(prf) ==
  prf.st # "object" \/ prf.results # "object" \/ prf.first.st # "value"

AuthenticationResponse(id, prf, largeBlob) ==
  [id |-> id, clientExtensionResults |-> [prf |-> prf, largeBlob |-> largeBlob]]
NoAuthenticationResponse == AuthenticationResponse("none", MissingPrf, MissingLargeBlob)

\* PasskeySupportOutputs, or undefined when the argument is not passed
NoSupport ==
  [st |-> "undefined", largeBlobSupported |-> FALSE, hasLargeBlob |-> FALSE,
   prfSupported |-> FALSE]
Support(largeBlobSupported, hasLargeBlob, prfSupported) ==
  [st |-> "object", largeBlobSupported |-> largeBlobSupported,
   hasLargeBlob |-> hasLargeBlob, prfSupported |-> prfSupported]

(***************************************************************************)
(* The sanitizer (passkeyUtils.ts).  The outcome records the returned      *)
(* value or the thrown error, and `argument`: the object the caller passed *)
(* in, as it is after the call (clientExtensionResults is the caller's     *)
(* object, and the two assignments write to it).                           *)
(***************************************************************************)
SanitizeReturn(sanitized, largeBlob, prf, argument) ==
  [st |-> "return", sanitizedAuthenticationResponse |-> sanitized,
   largeBlob |-> largeBlob, prf |-> prf, error |-> NoError,
   argument |-> argument]
SanitizeThrow(error, argument) ==
  [st |-> "throw", sanitizedAuthenticationResponse |-> NoAuthenticationResponse,
   largeBlob |-> MissingText, prf |-> MissingText, error |-> error,
   argument |-> argument]
NoSanitizeResult ==
  [st |-> "none", sanitizedAuthenticationResponse |-> NoAuthenticationResponse,
   largeBlob |-> MissingText, prf |-> MissingText, error |-> NoError,
   argument |-> NoAuthenticationResponse]

\* ClearExtensionResults without the largeBlob assignment
ClearExtensionResults_prfOnly(clientExtensionResults) ==
  [clientExtensionResults EXCEPT !.prf = UndefinedPrf]

\* ClearExtensionResults with `delete` in place of the assignments
ClearExtensionResults_delete(clientExtensionResults) ==
  [clientExtensionResults EXCEPT !.prf = MissingPrf,
                                 !.largeBlob = MissingLargeBlob]

\* clientExtensionResults.prf = undefined
\* clientExtensionResults.largeBlob = undefined
ClearExtensionResults(clientExtensionResults) ==
  [clientExtensionResults EXCEPT !.prf = UndefinedPrf,
                                 !.largeBlob = UndefinedLargeBlob]

\* sanitizeAuthenticationResponse with the two validations in the other order
sanitizeAuthenticationResponse_prfFirst(authenticationResponse, support) ==
  LET prf == authenticationResponse.clientExtensionResults.prf
      largeBlob == authenticationResponse.clientExtensionResults.largeBlob
      cleared == [authenticationResponse EXCEPT !.clientExtensionResults =
                    ClearExtensionResults(authenticationResponse.clientExtensionResults)]
  IN IF support.st = "object" /\ support.prfSupported /\ PrfFirstIsNull(prf)
     THEN SanitizeThrow(
            PasskeyError("Failed to read PRF from PRF-holding credential",
                         FAILED_WRITE),
            authenticationResponse)
     ELSE IF support.st = "object" /\ support.hasLargeBlob /\ BlobIsNull(largeBlob)
     THEN SanitizeThrow(
            PasskeyError("Failed to read large blob from large-blob-holding credential",
                         FAILED_READ),
            authenticationResponse)
     ELSE SanitizeReturn(
            cleared,
            IF ~BlobIsNull(largeBlob)
              THEN SomeText(arrayBufferToPlaintext(largeBlob.blob.buf))
              ELSE MissingText,
            IF ~PrfFirstIsNull(prf)
              THEN SomeText(arrayBufferToBase64String(prf.first.buf))
              ELSE MissingText,
            cleared)

sanitizeAuthenticationResponse(authenticationResponse, support) ==
  LET prf == authenticationResponse.clientExtensionResults.prf
      largeBlob == authenticationResponse.clientExtensionResults.largeBlob
      cleared == [authenticationResponse EXCEPT !.clientExtensionResults =
                    ClearExtensionResults(authenticationResponse.clientExtensionResults)]
  IN IF support.st = "object" /\ support.hasLargeBlob /\ BlobIsNull(largeBlob)
     THEN SanitizeThrow(
            PasskeyError("Failed to read large blob from large-blob-holding credential",
                         FAILED_READ),
            authenticationResponse)
     ELSE IF support.st = "object" /\ support.prfSupported /\ PrfFirstIsNull(prf)
     THEN SanitizeThrow(
            PasskeyError("Failed to read PRF from PRF-holding credential",
                         FAILED_WRITE),
            authenticationResponse)
     ELSE SanitizeReturn(
            cleared,
            IF ~BlobIsNull(largeBlob)
              THEN SomeText(arrayBufferToPlaintext(largeBlob.blob.buf))
              ELSE MissingText,
            IF ~PrfFirstIsNull(prf)
              THEN SomeText(arrayBufferToBase64String(prf.first.buf))
              ELSE MissingText,
            cleared)

(***************************************************************************)
(* Inputs of the codec.                                                    *)
(***************************************************************************)
\* a phrase of the right shape whose checksum word is wrong
BadChecksum ==
  Join(<<Word(1), Word(1), Word((Checksum(1, 1) % NumWords) + 1)>>, SPACE)
\* a phrase with too few words
TooShort == Join(<<Word(1), Word(1)>>, SPACE)
\* text that is not made of words of the list ("hi")
NotWords == <<104, 105>>

OtherTexts == {<<>>, BadChecksum, TooShort, NotWords}
Texts == Mnemonics \cup OtherTexts

\* an unimplemented version tag ("V2")
UnknownVersion == <<86, 50>>
VersionTags == {PasskeyBlobVersion_V1, UnknownVersion, <<>>}

\* sequences of at most n version tags
TagSeqs(n) == UNION { [1..k -> VersionTags] : k \in 0..n }

\* decode inputs: unversioned text, and a base64 payload followed by up to
\* MaxSegments - 1 delimited trailing segments
DecodeInputs ==
  Texts \cup
  { Join(<<utf8ToBase64(t)>> \o tags, SEED_VERSION_DELIMITER) :
      t \in Texts, tags \in TagSeqs(MaxSegments - 1) }

(***************************************************************************)
(* Inputs of the sanitizer.                                                *)
(***************************************************************************)
\* the blob of some seed phrase, as an authenticator holds it
SomeBlob ==
  utf8ToBase64(CHOOSE m \in Mnemonics : TRUE) \o SEED_VERSION_DELIMITER
    \o BLOB_VERSION_CURRENT
\* a prf output
SomePrfBytes == <<7, 200, 31>>

LargeBlobOutputs ==
  { MissingLargeBlob, UndefinedLargeBlob,
    LargeBlobOutput("object", MissingBuffer, "missing"),
    LargeBlobOutput("object", MissingBuffer, "true"),
    LargeBlobOutput("object", SomeBuffer(<<>>), "missing"),
    LargeBlobOutput("object", SomeBuffer(SomeBlob), "missing") }

PrfOutputs ==
  { MissingPrf, UndefinedPrf,
    PrfOutput("object", "missing", MissingBuffer),
    PrfOutput("object", "object", MissingBuffer),
    PrfOutput("object", "object", SomeBuffer(SomePrfBytes)) }

Supports ==
  {NoSupport} \cup
  { Support(l, h, p) : l \in BOOLEAN, h \in BOOLEAN, p \in BOOLEAN }


(***************************************************************************)
(* Keys and signatures (passkeyDevice.ts).  The bip32 / ethers / bitcoinjs *)
(* computations are kept symbolic: a derived value records what it is, the *)
(* seed phrase it was derived from and the text of the derivation path.    *)
(* A number that is not there (null, undefined) is -1.                     *)
(***************************************************************************)
RECURSIVE Digits(_)
\* the decimal text of a natural number
Digits(n) ==
  IF n < 10 THEN <<48 + n>> ELSE Digits(n \div 10) \o <<48 + (n % 10)>>

\* `${n}` in a template literal: a number that is not there (undefined,
\* held as -1) is rendered as the text "undefined"
TemplateText(n) ==
  IF n < 0 THEN <<117, 110, 100, 101, 102, 105, 110, 101, 100>> ELSE Digits(n)

SLASH == <<47>>
APOSTROPHE == <<39>>

\* the bip32 path text of a node: "m" followed by the segments that are
\* there, the apostrophe on the purpose when it is hardened
KeyPath(purpose, hardened, coinType, account, change, address) ==
  LET segment(n) == IF n < 0 THEN <<>> ELSE SLASH \o Digits(n)
  IN <<109>>
     \o (IF purpose < 0 THEN <<>>
         ELSE SLASH \o Digits(purpose) \o (IF hardened THEN APOSTROPHE ELSE <<>>))
     \o segment(coinType) \o segment(account) \o segment(change)
     \o segment(address)
\* the master node, "m"
MasterPath == KeyPath(-1, FALSE, -1, -1, -1, -1)

Derived(kind, seedPhrase, path, message) ==
  [kind |-> kind, seed |-> seedPhrase, path |-> path, message |-> message]
NoValue == Derived("none", <<>>, MasterPath, "none")

\* exportXpub without neutered(): the extended private key is serialized
exportedXpub_notNeutered(seedPhrase, hardenedKeyPathPurpose) ==
  IF hardenedKeyPathPurpose = -1 \/ hardenedKeyPathPurpose = 0
  THEN Derived("xprv", seedPhrase, MasterPath, "none")
  ELSE Derived("xprv", seedPhrase,
               KeyPath(hardenedKeyPathPurpose, TRUE, -1, -1, -1, -1), "none")

\* exportXpub: node.neutered().toBase58() of the master node when
\* !hardenedKeyPathPurpose, of m/purpose' otherwise (null is -1)
exportedXpub(seedPhrase, hardenedKeyPathPurpose) ==
  IF hardenedKeyPathPurpose = -1 \/ hardenedKeyPathPurpose = 0
  THEN Derived("xpub", seedPhrase, MasterPath, "none")
  ELSE Derived("xpub", seedPhrase,
               <<109>> \o SLASH \o TemplateText(hardenedKeyPathPurpose)
                 \o APOSTROPHE,
               "none")

COIN_btc == "BTC"
COIN_tbtc == "TBTC"
COIN_eth == "ETH"
COIN_teth == "TETH"
COIN_ethC == "ETHC"
COIN_tethC == "TETHC"
ETH_COIN_TYPES == {COIN_eth, COIN_teth, COIN_ethC, COIN_tethC}
BTC_COIN_TYPES == {COIN_btc, COIN_tbtc}

\* a wallet account: the coin and the key path components
WalletAccount(coinType, purpose, hardened, keyPathCoinType, account) ==
  [coinType |-> coinType, keyPathPurpose |-> purpose,
   keyPathPurposeIsHardened |-> hardened,
   keyPathCoinType |-> keyPathCoinType, keyPathAccount |-> account]
NoWalletAccount == WalletAccount("none", -1, FALSE, -1, -1)

\* bip32 path validation of derivePath: an optional leading "m", then one
\* or more segments of decimal digits, each with an optional apostrophe
IsPathSegment(part) ==
  LET digits == IF part # <<>> /\ part[Len(part)] = APOSTROPHE[1]
                THEN SubSeq(part, 1, Len(part) - 1) ELSE part
  IN /\ digits # <<>>
     /\ \A i \in 1..Len(digits) : digits[i] \in 48..57

IsBIP32Path(path) ==
  LET parts == Split(path, SLASH)
      segments == IF parts[1] = <<109>> THEN Tail(parts) ELSE parts
  IN /\ segments # <<>>
     /\ \A i \in 1..Len(segments) : IsPathSegment(segments[i])

\* hdRoot.derivePath(path): the node at the path, or the TypeError that the
\* path validation of bip32 throws
derivePath(path) ==
  IF IsBIP32Path(path)
  THEN [st |-> "return", path |-> path, error |-> NoError]
  ELSE [st |-> "throw", path |-> path, error |-> TypeError]

\* ethSignerFromSeedAndPath: m/purpose[']/coinType/account/0 and, when
\* keyPathAddress != null, /keyPathAddress
\* ethSignerFromSeedAndPath with the apostrophe on every purpose
ethSignerPath_alwaysHardened(keyPathPurpose, keyPathPurposeIsHardened, keyPathCoinType, keyPathAccount, keyPathAddress) ==
  LET derivationPath == <<109>> \o SLASH \o TemplateText(keyPathPurpose)
                          \o APOSTROPHE
                          \o SLASH \o TemplateText(keyPathCoinType)
                          \o SLASH \o TemplateText(keyPathAccount)
                          \o SLASH \o <<48>>
  IN IF keyPathAddress # -1
     THEN derivationPath \o SLASH \o TemplateText(keyPathAddress)
     ELSE derivationPath

ethSignerPath(keyPathPurpose, keyPathPurposeIsHardened, keyPathCoinType, keyPathAccount, keyPathAddress) ==
  LET purpose == TemplateText(keyPathPurpose)
                   \o (IF keyPathPurposeIsHardened THEN APOSTROPHE ELSE <<>>)
      derivationPath == <<109>> \o SLASH \o purpose
                          \o SLASH \o TemplateText(keyPathCoinType)
                          \o SLASH \o TemplateText(keyPathAccount)
                          \o SLASH \o <<48>>
  IN IF keyPathAddress # -1
     THEN derivationPath \o SLASH \o TemplateText(keyPathAddress)
     ELSE derivationPath

\* the Bitcoin branch of getSignedMessage:
\* m/purpose[']/coinType/account/change/address with change and address '0'
bitcoinMessagePath(keyPathPurpose, keyPathPurposeIsHardened, keyPathCoinType, keyPathAccount) ==
  LET purpose == IF keyPathPurposeIsHardened
                 THEN TemplateText(keyPathPurpose) \o APOSTROPHE
                 ELSE TemplateText(keyPathPurpose)
      change == <<48>>
      address == <<48>>
  IN <<109>> \o SLASH \o purpose \o SLASH \o TemplateText(keyPathCoinType)
       \o SLASH \o TemplateText(keyPathAccount) \o SLASH \o change
       \o SLASH \o address

\* the path getSignedMessage derives the signing key at: the Ethereum
\* signer for the coins of ETH_COIN_TYPES, the Bitcoin branch for any other
signedMessagePath(coin, walletAccount) ==
  IF coin \in ETH_COIN_TYPES
  THEN ethSignerPath(walletAccount.keyPathPurpose,
                     walletAccount.keyPathPurposeIsHardened,
                     walletAccount.keyPathCoinType,
                     walletAccount.keyPathAccount, 0)
  ELSE bitcoinMessagePath(walletAccount.keyPathPurpose,
                          walletAccount.keyPathPurposeIsHardened,
                          walletAccount.keyPathCoinType,
                          walletAccount.keyPathAccount)

\* getSignedMessage, after the blob was read and decoded: the message
\* signed with the key at signedMessagePath
signedMessage(coin, walletAccount, seedPhrase, message) ==
  Derived(IF coin \in ETH_COIN_TYPES THEN "ethSignature" ELSE "btcSignature",
          seedPhrase, signedMessagePath(coin, walletAccount), message)

(***************************************************************************)
(* Requests to the server (useApi fetches of useWebWallet.tsx).  Every     *)
(* request has the same fields; a field a request does not carry holds the *)
(* empty value of its type.                                                *)
(***************************************************************************)
\* new GnosisSafe(safeAddress, isTestnet, serverHost, token)
NoSafe == [st |-> "none", safeAddress |-> "null", isTestnet |-> FALSE]
GnosisSafe(safeAddress, testnet) ==
  [st |-> "object", safeAddress |-> safeAddress, isTestnet |-> testnet]

NoRequest ==
  [path |-> "none", token |-> "none", credentialId |-> "none",
   deviceId |-> "none", signatureId |-> "none", walletAccountId |-> "none",
   attestation |-> "none", optionsToken |-> "none",
   xpub |-> NoValue, authenticationResponse |-> NoAuthenticationResponse,
   blobVersion |-> <<>>, hardenedKeyPathPurpose |-> -1,
   externalSignatures |-> NoValue, safe |-> NoSafe]

(***************************************************************************)
(* Ceremonies (navigator.credentials.create / get).  A ceremony in flight  *)
(* records the request the code made.                                      *)
(***************************************************************************)
PROMPT_TIMEOUT_MS == 60000

NoCeremony ==
  [kind |-> "none", allowCredentials |-> [st |-> "undefined", ids |-> {}], write |-> MissingBuffer,
   read |-> FALSE, timeout |-> 0]

\* normalizeCredentialId handing the id back as it was given
normalizeCredentialId_asGiven(credentialId) == credentialId

normalizeCredentialId(credentialId) ==
  normalizeBase64OrBase64UrlString(credentialId)

\* the bytes of the ids of two credentials; the base64 text of the first has
\* '+', '/' and padding
CredentialBytes == <<251, 255>>
OtherCredentialBytes == <<1, 2, 3, 62>>
\* an id in the two encodings a client integration may hand over
IdBase64(bytes) == utf8ToBase64(bytes)
IdBase64Url(bytes) == base64ToBase64url(utf8ToBase64(bytes))
\* the text of the credentialId the hook holds: the server answers the
\* registration with the id as it saved it, in base64
CredentialIdText(credentialId) == IdBase64(CredentialBytes)

\* options.allowCredentials: an array of candidates, or undefined
Candidates(ids) == [st |-> "array", ids |-> ids]
NoCandidates == [st |-> "undefined", ids |-> <<>>]
\* the candidates the sign options of the server name
ServerCandidates == Candidates(<<IdBase64(CredentialBytes)>>)

\* allowCredentials of a request: the ids of the descriptors, or undefined
AllowCredentials(ids) == [st |-> "array", ids |-> ids]
\* options.allowCredentials?.map(...)
allowCredentials(candidates) ==
  IF candidates.st = "undefined" THEN [st |-> "undefined", ids |-> {}]
  ELSE AllowCredentials(
         { base64ToUint8Array(normalizeCredentialId(candidates.ids[i])) :
             i \in 1..Len(candidates.ids) })

\* thrown by the browser when the prompt is dismissed or times out
NotAllowedError == [name |-> "NotAllowedError", code |-> "none", message |-> "none"]
\* the rejection of a useApi fetch
ApiError == [name |-> "ApiError", code |-> "none", message |-> "none"]

\* parsePasskeyError: a PasskeyError is kept; a dismissed prompt is
\* USER_EXITED; a failed request is UNABLE_TO_CONNECT; anything else UNKNOWN
parsePasskeyError(message, error) ==
  IF error.name = "PasskeyError" THEN error
  ELSE IF error.name = "NotAllowedError" THEN PasskeyError(message, USER_EXITED)
  ELSE IF error.name \in {"ApiError", "none"} THEN PasskeyError(message, UNABLE_TO_CONNECT)
  ELSE PasskeyError(message, UNKNOWN)

(***************************************************************************)
(* writeLargeBlob / readLargeBlob after the ceremony resolved              *)
(* (passkeyUtils.ts).  `assertion` is the resolved credential: "null" or   *)
(* its id and client extension results.                                    *)
(***************************************************************************)
Assertion(st, id, prf, largeBlob) ==
  [st |-> st, id |-> id, clientExtensionResults |-> [prf |-> prf, largeBlob |-> largeBlob]]
NullAssertion == Assertion("null", "none", MissingPrf, MissingLargeBlob)

CallReturn(response, text) ==
  [st |-> "return", authenticationResponse |-> response, text |-> text,
   error |-> NoError]
CallThrow(error) ==
  [st |-> "throw", authenticationResponse |-> NoAuthenticationResponse,
   text |-> <<>>, error |-> error]

\* writeLargeBlob throwing only when the flag is there and false
writeLargeBlobResult_falseOnly(assertion) ==
  IF assertion.st = "null"
  THEN CallThrow(TypeError)
  ELSE IF assertion.clientExtensionResults.largeBlob.st = "object"
          /\ assertion.clientExtensionResults.largeBlob.written = "false"
  THEN CallThrow(PasskeyError("Large blob was not written", FAILED_WRITE))
  ELSE CallReturn(
         [id |-> assertion.id,
          clientExtensionResults |-> assertion.clientExtensionResults],
         <<>>)

writeLargeBlobResult(assertion) ==
  IF assertion.st = "null"
  THEN CallThrow(TypeError)
  ELSE IF ~(assertion.clientExtensionResults.largeBlob.st = "object"
            /\ assertion.clientExtensionResults.largeBlob.written = "true")
  THEN CallThrow(PasskeyError("Large blob was not written", FAILED_WRITE))
  ELSE CallReturn(
         [id |-> assertion.id,
          clientExtensionResults |-> assertion.clientExtensionResults],
         <<>>)

\* readLargeBlob without the check of the decoded string
readLargeBlobResult_noEmptyCheck(assertion) ==
  IF assertion.st = "null"
  THEN CallThrow(TypeError)
  ELSE IF assertion.clientExtensionResults.largeBlob.st # "object"
  THEN CallThrow(PasskeyError("Unable to read large blob", FAILED_READ))
  ELSE IF assertion.clientExtensionResults.largeBlob.blob.st # "value"
  THEN CallThrow(PasskeyError("Large blob empty", FAILED_READ))
  ELSE CallReturn(NoAuthenticationResponse,
         arrayBufferToPlaintext(assertion.clientExtensionResults.largeBlob.blob.buf))

readLargeBlobResult(assertion) ==
  IF assertion.st = "null"
  THEN CallThrow(TypeError)
  ELSE IF assertion.clientExtensionResults.largeBlob.st # "object"
  THEN CallThrow(PasskeyError("Unable to read large blob", FAILED_READ))
  ELSE IF assertion.clientExtensionResults.largeBlob.blob.st # "value"
  THEN CallThrow(PasskeyError("Large blob empty", FAILED_READ))
  ELSE LET blobString ==
             arrayBufferToPlaintext(assertion.clientExtensionResults.largeBlob.blob.buf)
       IN IF blobString = <<>>
          THEN CallThrow(PasskeyError("Large blob decoded to empty string", FAILED_READ))
          ELSE CallReturn(NoAuthenticationResponse, blobString)

\* the blob that was read used as the seed phrase, decodeSeedPhrase left out
readSeedPhrase_noDecode(assertion) ==
  LET read == readLargeBlobResult(assertion)
  IN IF read.st = "throw" THEN read
     ELSE CallReturn(NoAuthenticationResponse, read.text)

\* readLargeBlob followed by decodeSeedPhrase, as getSignedMessage,
\* getStoredSeed and the transaction signers do
readSeedPhrase(assertion) ==
  LET read == readLargeBlobResult(assertion)
  IN IF read.st = "throw" THEN read
     ELSE LET decoded == decodeSeedPhrase(read.text)
          IN IF decoded.st = "throw" THEN CallThrow(decoded.error)
             ELSE CallReturn(NoAuthenticationResponse, decoded.text)

(***************************************************************************)
(* Props of the WebWalletProvider and data the server returns.             *)
(***************************************************************************)
\* bound on the number of hook operations called in one run
MaxCalls == 2

Device(st, id, hardenedKeyPathPurpose) ==
  [st |-> st, id |-> id, hardenedKeyPathPurpose |-> hardenedKeyPathPurpose]
NoDevice == Device("undefined", "none", -1)

\* signature prop: its id and signature.key.walletAccountId
Signature(st, id, walletAccountId) ==
  [st |-> st, id |-> id, walletAccountId |-> walletAccountId]
NoSignature == Signature("undefined", "none", "null")

\* transactionInputs prop; toSign carries what the signing parameters need
TransactionInputs(st, walletAccount, signature, toSign, psbt, safeAddress) ==
  [st |-> st, walletAccount |-> walletAccount, signature |-> signature,
   toSign |-> toSign, psbt |-> psbt, safeAddress |-> safeAddress]
NoTransactionInputs ==
  TransactionInputs("undefined", NoWalletAccount, NoSignature, "null",
                    "missing", "null")

BtcAccount == WalletAccount(COIN_btc, 49, TRUE, 0, 0)
EthAccount == WalletAccount(COIN_eth, 44, FALSE, 60, 0)
WalletAccounts == {BtcAccount, EthAccount}

Props(jwt, deviceId, device, signature, transactionInputs) ==
  [jwt |-> jwt, deviceId |-> deviceId, device |-> device,
   signature |-> signature, transactionInputs |-> transactionInputs]

\* the setup page (YubikeyRegister): a device, no signature
SetupProps ==
  { Props(jwt, "dev1", device, NoSignature, NoTransactionInputs) :
      jwt \in {"null", "jwt"},
      device \in {NoDevice, Device("object", "dev1", -1),
                  Device("object", "dev1", 84)} }

\* the sign page (YubikeySign): a signature and, for a transaction, inputs
SignProps ==
  { Props(jwt, "null", NoDevice, sig, tx) :
      jwt \in {"null", "jwt"},
      sig \in {NoSignature, Signature("object", "sig1", "null"),
               Signature("object", "sig1", "wa1")},
      tx \in {NoTransactionInputs,
              TransactionInputs("object", NoWalletAccount, NoSignature, "null",
                                "missing", "null"),
              TransactionInputs("object", BtcAccount,
                                Signature("object", "sig1", "wa1"), "toSign",
                                "valid", "null"),
              TransactionInputs("object", EthAccount,
                                Signature("object", "sig1", "wa1"), "toSign",
                                "missing", "safe"),
              TransactionInputs("object", EthAccount,
                                Signature("object", "sig1", "wa1"), "toSign",
                                "missing", "null"),
              TransactionInputs("object", WalletAccount("XRP", 44, TRUE, 144, 0),
                                Signature("object", "sig1", "wa1"), "toSign",
                                "missing", "null")} }

\* what the authenticator's large blob holds when the page is opened
StoredBlobs ==
  { MissingBuffer,
    SomeBuffer(<<>>),
    SomeBuffer(SomeBlob),
    SomeBuffer(CHOOSE m \in Mnemonics : TRUE),
    SomeBuffer(utf8ToBase64(NotWords) \o SEED_VERSION_DELIMITER
                 \o BLOB_VERSION_CURRENT),
    SomeBuffer(SomeBlob \o SEED_VERSION_DELIMITER \o UnknownVersion) }

(***************************************************************************)
(* State.                                                                  *)
(***************************************************************************)
VARIABLES
  codec,     \* a call of the blob codec: its arguments and its results
  san,       \* a call of the sanitizer: the caller's response object, the
             \* value it had when it was passed in, the profile, the outcome
  props,     \* props and URL parameters of the WebWalletProvider
  hook,      \* the useState values of the WebWalletProvider
  op,        \* the hook operation in progress: its position and its locals
  request,   \* the request to the server that is in flight
  ceremony,  \* the authenticator ceremony that is in flight
  largeBlob, \* the large blob the authenticator holds for the credential
  server,    \* the xpub the server holds for the device from the device
             \* updates of createWallet; none before the first
  lib,       \* a call of a function of passkeyDevice.ts or passkeyUtils.ts
             \* made directly: its arguments, its position, its result
  ui,        \* the page that uses the hook: the step shown and the state
             \* of the component mounted for it
  calls      \* number of hook operations called so far

vars ==
  <<codec, san, props, hook, op, request, ceremony, largeBlob, server, lib,
    ui, calls>>
hookVars == <<props, hook, op, request, ceremony, largeBlob, server, ui, calls>>
\* what a direct call of a library function leaves alone
hookVars_lib == <<props, hook, op, request, largeBlob, server, ui, calls>>

\* the arguments of a direct call; an argument the function does not take
\* holds the empty value of its type
Params(coin, walletAccount, keyPathAddress, psbt, safeAddress, message, hardenedKeyPathPurpose, blob, credentialId, options) ==
  [coin |-> coin, walletAccount |-> walletAccount,
   keyPathAddress |-> keyPathAddress, psbt |-> psbt,
   safeAddress |-> safeAddress, message |-> message,
   hardenedKeyPathPurpose |-> hardenedKeyPathPurpose, blob |-> blob,
   credentialId |-> credentialId, options |-> options]
NoParams ==
  Params("none", NoWalletAccount, -1, "missing", "null", "none", -1, <<>>,
         <<>>, NoCandidates)

\* the outcome of a direct call: what it returned (the fields of the
\* function's return value) or the error it threw
LibReturn(authenticationResponse, text, value, blobVersion) ==
  [st |-> "return", error |-> NoError,
   authenticationResponse |-> authenticationResponse, text |-> text,
   value |-> value, blobVersion |-> blobVersion]
LibThrow(error) ==
  [st |-> "throw", error |-> error,
   authenticationResponse |-> NoAuthenticationResponse, text |-> <<>>,
   value |-> NoValue, blobVersion |-> <<>>]
NoLibResult ==
  [st |-> "none", error |-> NoError,
   authenticationResponse |-> NoAuthenticationResponse, text |-> <<>>,
   value |-> NoValue, blobVersion |-> <<>>]

\* what the last exportXpub that returned has returned, with the seed
\* phrase it generated; replaced: it overwrote the blob of an earlier one
NoExport ==
  [st |-> "none", seedPhrase |-> <<>>, xpub |-> NoValue, blobVersion |-> <<>>,
   hardenedKeyPathPurpose |-> -1, replaced |-> FALSE]

\* settled: how the ceremony of the call ended ("none" while it has not);
\* assertion: the credential it resolved with; prompts: the number of
\* navigator.credentials.get calls the call has made
LibIdle ==
  [pc |-> "idle", fn |-> "none", params |-> NoParams, seedPhrase |-> <<>>,
   settled |-> "none", assertion |-> NullAssertion, prompts |-> 0,
   result |-> NoLibResult, exported |-> NoExport, safe |-> NoSafe]

CodecIdle ==
  [pc |-> "idle", seedPhrase |-> <<>>, blobVersion |-> <<>>,
   encodedSeedPhrase |-> <<>>, encodeResult |-> NoCodecResult,
   decodeResult |-> NoCodecResult]

SanIdle ==
  [pc |-> "idle", authenticationResponse |-> NoAuthenticationResponse,
   passed |-> NoAuthenticationResponse,
   support |-> NoSupport, result |-> NoSanitizeResult]

HookInitial ==
  [passkeyLoading |-> FALSE, walletLoading |-> FALSE,
   deviceUpdateLoading |-> FALSE, signatureLoading |-> FALSE,
   phraseLoading |-> FALSE,
   passkeyError |-> NoError, walletError |-> NoError, signError |-> NoError,
   phraseError |-> NoError,
   credentialId |-> "null", xPub |-> NoValue, backupToken |-> "undefined",
   signatureResult |-> "null", phrase |-> <<>>, phraseSet |-> FALSE,
   phraseConfirmed |-> FALSE]

\* locals of the operation in progress that live across an await
OpIdle ==
  [pc |-> "idle", seedPhrase |-> <<>>, optionsToken |-> "none",
   exported |-> NoValue, walletAccount |-> NoWalletAccount]

\* the page: "setup" is YubikeyRegister, "sign" is YubikeySign, "unused"
\* when the hook operations are called without a page.  passkeyPrompted,
\* minimumTimePassed and timerRef are the useState and useRef values of the
\* loading component that is mounted; selected and targetIndex are the
\* useState and useMemo values of ExportTest (-1: null; index i of the code
\* is i + 1 here); isHealthCheck, passwordReset
\* (signature.recoveryDataReset.dataType is 'PASSWORD') and
\* enableYubikeySeedExport are what the page is given.  triedAgain: a try
\* again button was used; overlapped: an operation was invoked while the
\* run of another had not finished
UiUnused ==
  [page |-> "unused", step |-> "none", passkeyPrompted |-> FALSE,
   minimumTimePassed |-> "null", timerRef |-> FALSE,
   selected |-> -1, targetIndex |-> -1,
   isHealthCheck |-> FALSE, passwordReset |-> FALSE,
   enableYubikeySeedExport |-> FALSE,
   triedAgain |-> FALSE, overlapped |-> FALSE]

HookUnused ==
  /\ ui = UiUnused
  /\ props = Props("null", "null", NoDevice, NoSignature, NoTransactionInputs)
  /\ hook = HookInitial
  /\ op = [OpIdle EXCEPT !.pc = "unused"]
  /\ request = NoRequest
  /\ ceremony = NoCeremony
  /\ largeBlob = MissingBuffer
  /\ server = NoValue
  /\ calls = 0

LibUnused == lib = [LibIdle EXCEPT !.pc = "unused"]

(***************************************************************************)
(* The codec and the sanitizer called on their own.                        *)
(***************************************************************************)
InitCodec ==
  /\ san = SanIdle
  /\ LibUnused
  /\ HookUnused
  /\ \/ \E t \in Texts, v \in VersionTags :
          codec = [CodecIdle EXCEPT !.pc = "encode", !.seedPhrase = t,
                                    !.blobVersion = v]
     \/ \E e \in DecodeInputs :
          codec = [CodecIdle EXCEPT !.pc = "decode", !.encodedSeedPhrase = e]

\* encodeSeedPhrase({seedPhrase, blobVersion}) is called
EncodeSeedPhraseCall ==
  /\ codec.pc = "encode"
  /\ codec' = [codec EXCEPT
       !.pc = "encoded",
       !.encodeResult = encodeSeedPhrase(codec.seedPhrase, codec.blobVersion)]
  /\ UNCHANGED <<san, lib, hookVars>>

\* the blob returned by encodeSeedPhrase is handed to decodeSeedPhrase
DecodeEncodedBlob ==
  /\ codec.pc = "encoded"
  /\ codec.encodeResult.st = "return"
  /\ codec' = [codec EXCEPT
       !.pc = "decode",
       !.encodedSeedPhrase = codec.encodeResult.text]
  /\ UNCHANGED <<san, lib, hookVars>>

\* decodeSeedPhrase(encodedSeedPhrase) is called
DecodeSeedPhraseCall ==
  /\ codec.pc = "decode"
  /\ codec' = [codec EXCEPT
       !.pc = "decoded",
       !.decodeResult = decodeSeedPhrase(codec.encodedSeedPhrase)]
  /\ UNCHANGED <<san, lib, hookVars>>

\* a caller holds an authentication response and a capability profile
InitSanitize ==
  /\ codec = CodecIdle
  /\ LibUnused
  /\ HookUnused
  /\ \E p \in PrfOutputs, l \in LargeBlobOutputs, sup \in Supports :
       san = [SanIdle EXCEPT
                !.pc = "call",
                !.authenticationResponse = AuthenticationResponse("cred", p, l),
                !.passed = AuthenticationResponse("cred", p, l),
                !.support = sup]

\* sanitizeAuthenticationResponse(authenticationResponse, support) is
\* called; the caller's object is the argument as the call leaves it
SanitizeCall ==
  /\ san.pc = "call"
  /\ LET outcome == sanitizeAuthenticationResponse(san.authenticationResponse,
                                                    san.support)
     IN san' = [san EXCEPT !.pc = "done",
                           !.result = outcome,
                           !.authenticationResponse = outcome.argument]
  /\ UNCHANGED <<codec, lib, hookVars>>

(***************************************************************************)
(* The hook operations (useWebWallet.tsx).  An operation runs from one     *)
(* await to the next in one step; the outcome of the awaited request or    *)
(* ceremony is chosen when the operation resumes.                          *)
(***************************************************************************)
InitHook ==
  /\ LibUnused
  /\ ui = UiUnused
  /\ codec = CodecIdle
  /\ san = SanIdle
  /\ props \in SetupProps \cup SignProps
  /\ hook = HookInitial
  /\ op = OpIdle
  /\ request = NoRequest
  /\ ceremony = NoCeremony
  /\ largeBlob \in StoredBlobs
  /\ server = NoValue
  /\ calls = 0

CanCall == op.pc = "idle" /\ calls < MaxCalls

\* the steps whose loading component calls the operation when it is
\* mounted; YubikeySignLoading calls what isHealthCheck selects
LoadingSteps(fn) ==
  CASE fn = "createPasskey" -> {"YUBIKEY_INTERACT_PASSKEY"}
    [] fn = "createWallet" -> {"YUBIKEY_INTERACT_WALLET"}
    [] fn = "getSeedPhrase" -> {"YUBIKEY_EXPORT_LOAD"}
    [] fn = "signHealthCheck" ->
         IF ui.isHealthCheck
         THEN {"YUBIKEY_HEALTH_LOADING", "YUBIKEY_SIGN_LOADING"} ELSE {}
    [] fn = "signTransaction" ->
         IF ui.isHealthCheck
         THEN {} ELSE {"YUBIKEY_HEALTH_LOADING", "YUBIKEY_SIGN_LOADING"}

\* onForward(step): the page shows the step; the component of the step is
\* mounted with the initial values of its own state
Show(step) ==
  [ui EXCEPT !.step = step, !.passkeyPrompted = FALSE,
             !.minimumTimePassed = "null", !.timerRef = FALSE,
             !.selected = -1, !.targetIndex = -1]

\* Forward without the minimum time of the wallet step
Forward_noTimer(h) ==
  CASE ui.step = "YUBIKEY_INTERACT_PASSKEY" ->
         IF h.credentialId # "null" /\ h.passkeyError = NoError
         THEN "YUBIKEY_SETUP_CONFIRM"
         ELSE IF h.passkeyError # NoError THEN "YUBIKEY_ERROR" ELSE ui.step
    [] ui.step = "YUBIKEY_INTERACT_WALLET" ->
         IF h.xPub # NoValue /\ h.walletError = NoError
         THEN "YUBIKEY_SUCCESS"
         ELSE IF h.walletError # NoError THEN "YUBIKEY_ERROR" ELSE ui.step
    [] ui.step = "YUBIKEY_EXPORT_LOAD" ->
         IF h.phraseSet /\ h.phraseError = NoError
         THEN "YUBIKEY_EXPORT_VIEW"
         ELSE IF h.phraseError # NoError THEN "YUBIKEY_EXPORT_ERROR"
              ELSE ui.step
    [] ui.step \in {"YUBIKEY_SIGN_LOADING", "YUBIKEY_HEALTH_LOADING"} ->
         IF h.signatureResult # "null" /\ h.signError = NoError
         THEN IF ui.passwordReset THEN "PASSWORD_RESET"
              ELSE IF ui.isHealthCheck THEN "YUBIKEY_HEALTH_SUCCESS"
              ELSE "YUBIKEY_SIGN_SUCCESS"
         ELSE IF h.signError # NoError
              THEN IF ui.isHealthCheck THEN "YUBIKEY_HEALTH_ERROR"
                   ELSE "YUBIKEY_SIGN_ERROR"
              ELSE ui.step
    [] OTHER -> ui.step

\* the step the second effect of the mounted loading component forwards
\* to when it runs with the hook state h; the step shown when it does not
\* forward
Forward(h) ==
  CASE ui.step = "YUBIKEY_INTERACT_PASSKEY" ->
         IF h.credentialId # "null" /\ h.passkeyError = NoError
         THEN "YUBIKEY_SETUP_CONFIRM"
         ELSE IF h.passkeyError # NoError THEN "YUBIKEY_ERROR" ELSE ui.step
    [] ui.step = "YUBIKEY_INTERACT_WALLET" ->
         IF ui.minimumTimePassed = "true" /\ h.xPub # NoValue
            /\ h.walletError = NoError
         THEN "YUBIKEY_SUCCESS"
         ELSE IF h.walletError # NoError THEN "YUBIKEY_ERROR" ELSE ui.step
    [] ui.step = "YUBIKEY_EXPORT_LOAD" ->
         IF h.phraseSet /\ h.phraseError = NoError
         THEN "YUBIKEY_EXPORT_VIEW"
         ELSE IF h.phraseError # NoError THEN "YUBIKEY_EXPORT_ERROR"
              ELSE ui.step
    [] ui.step \in {"YUBIKEY_SIGN_LOADING", "YUBIKEY_HEALTH_LOADING"} ->
         IF h.signatureResult # "null" /\ h.signError = NoError
         THEN IF ui.passwordReset THEN "PASSWORD_RESET"
              ELSE IF ui.isHealthCheck THEN "YUBIKEY_HEALTH_SUCCESS"
              ELSE "YUBIKEY_SIGN_SUCCESS"
         ELSE IF h.signError # NoError
              THEN IF ui.isHealthCheck THEN "YUBIKEY_HEALTH_ERROR"
                   ELSE "YUBIKEY_SIGN_ERROR"
              ELSE ui.step
    [] OTHER -> ui.step

\* the first effect of a loading component runs on every render
Invoked_everyRender(fn) ==
  IF ui.page = "unused" THEN CanCall ELSE ui.step \in LoadingSteps(fn)
\* the operation is called: by a caller of the hook when there is no page,
\* else by the first effect of the loading component, which runs the
\* operation when passkeyPrompted is not yet true
Invoked(fn) ==
  IF ui.page = "unused" THEN CanCall
  ELSE ui.step \in LoadingSteps(fn) /\ ~ui.passkeyPrompted

\* the first effect calls without setting passkeyPrompted
Invoke_notRecorded(fn) ==
  /\ Invoked(fn)
  /\ calls' = IF ui.page = "unused" THEN calls + 1 ELSE calls
  /\ ui' = IF ui.page = "unused" THEN ui
           ELSE LET overlapped == ui.overlapped \/ op.pc # "idle"
                IN IF Forward(hook) # ui.step
                   THEN [Show(Forward(hook)) EXCEPT !.overlapped = overlapped]
                   ELSE [ui EXCEPT !.overlapped = overlapped]

\* the effects of the render that calls the operation: the first sets
\* passkeyPrompted and calls, the second forwards on the hook state of
\* that render
Invoke(fn) ==
  /\ Invoked(fn)
  /\ calls' = IF ui.page = "unused" THEN calls + 1 ELSE calls
  /\ ui' = IF ui.page = "unused" THEN ui
           ELSE LET overlapped == ui.overlapped \/ op.pc # "idle"
                IN IF Forward(hook) # ui.step
                   THEN [Show(Forward(hook)) EXCEPT !.overlapped = overlapped]
                   ELSE [ui EXCEPT !.passkeyPrompted = TRUE,
                                   !.overlapped = overlapped]

\* the operation is called while the run of an operation has not finished:
\* the two runs overlap from here on, which ui.overlapped records
Running == ui.page # "unused" /\ op.pc # "idle"

\* the operation ends: nothing is in flight any more
Finish(h) ==
  /\ hook' = h
  /\ op' = OpIdle
  /\ request' = NoRequest
  /\ ceremony' = NoCeremony

\* the operation awaits a request to the server
AwaitRequest(pc, h, r) ==
  /\ hook' = h
  /\ op' = [op EXCEPT !.pc = pc]
  /\ request' = r
  /\ ceremony' = NoCeremony

ApiOutcomes == {"error", "nodata", "data"}

\* the error value of a request that did not deliver: the fetch rejected
\* ("error") or resolved without the data ("nodata")
ApiFailure(outcome) == IF outcome = "error" THEN ApiError ELSE NoError

(***************************************************************************)
(* createPasskey                                                           *)
(***************************************************************************)
CreatePasskey ==
  /\ Invoke("createPasskey")
  /\ IF Running THEN UNCHANGED <<hook, op, request, ceremony>>
     ELSE
     IF props.jwt = "null"
     THEN Finish([hook EXCEPT !.passkeyError =
                    PasskeyError("missing JWT", UNABLE_TO_CONNECT)])
     ELSE AwaitRequest("createPasskey.getCreateOptions",
            [hook EXCEPT !.passkeyError = NoError, !.passkeyLoading = TRUE],
            [NoRequest EXCEPT !.path = "GET passkeys/getCreateOptions",
                              !.token = props.jwt,
                              !.deviceId = props.deviceId])
  /\ UNCHANGED <<codec, san, lib, props, largeBlob, server>>

\* the creation options arrive; createRawCredential starts the ceremony
CreatePasskeyOptions ==
  /\ op.pc = "createPasskey.getCreateOptions"
  /\ \E outcome \in ApiOutcomes :
       IF outcome # "data"
       THEN Finish([hook EXCEPT
              !.passkeyError = parsePasskeyError(
                 "Failed attestation options request", ApiFailure(outcome)),
              !.passkeyLoading = FALSE])
       ELSE /\ hook' = hook
            /\ op' = [op EXCEPT !.pc = "createPasskey.ceremony",
                                !.optionsToken = "optToken"]
            /\ request' = NoRequest
            /\ ceremony' = [NoCeremony EXCEPT !.kind = "create",
                                              !.timeout = PROMPT_TIMEOUT_MS]
  /\ UNCHANGED <<codec, san, lib, ui, props, largeBlob, server, calls>>

\* navigator.credentials.create settles; the credential is registered
CreatePasskeyCeremony ==
  /\ op.pc = "createPasskey.ceremony"
  /\ \E outcome \in {"reject", "null", "credential"} :
       CASE outcome = "reject" ->
              Finish([hook EXCEPT
                !.passkeyError = parsePasskeyError(
                   "Failed to create passkey from browser prompt", NotAllowedError),
                !.passkeyLoading = FALSE])
         [] outcome = "null" ->
              Finish([hook EXCEPT
                !.passkeyError = parsePasskeyError(
                   "Failed to create passkey from browser prompt",
                   PasskeyError("Invalid registration response", USER_EXITED)),
                !.passkeyLoading = FALSE])
         [] OTHER ->
              AwaitRequest("createPasskey.addPasskey", hook,
                [NoRequest EXCEPT !.path = "POST passkeys",
                                  !.optionsToken = op.optionsToken,
                                  !.attestation = "registrationResponse",
                                  !.token = props.jwt])
  /\ UNCHANGED <<codec, san, lib, ui, props, largeBlob, server, calls>>

\* the server answers the registration
CreatePasskeyAdded ==
  /\ op.pc = "createPasskey.addPasskey"
  /\ \E outcome \in ApiOutcomes :
       IF outcome # "data"
       THEN Finish([hook EXCEPT
              !.passkeyError = parsePasskeyError(
                 "Creation successful, unable to add to database",
                 ApiFailure(outcome)),
              !.passkeyLoading = FALSE])
       ELSE Finish([hook EXCEPT !.credentialId = "cred",
                                !.passkeyLoading = FALSE])
  /\ UNCHANGED <<codec, san, lib, ui, props, largeBlob, server, calls>>

(***************************************************************************)
(* createWallet, with exportXpub and writeLargeBlob                        *)
(***************************************************************************)
\* createWallet setting walletLoading before it checks its inputs
CreateWallet_loadingFirst ==
  /\ Invoke("createWallet")
  /\ IF Running THEN UNCHANGED <<hook, op, request, ceremony>>
     ELSE
     IF props.jwt = "null" \/ hook.credentialId = "null"
        \/ props.device.st = "undefined"
     THEN Finish([hook EXCEPT !.walletLoading = TRUE,
            !.walletError = PasskeyError(
            "Attempted to create wallet before JWT, credentialId, and device are available",
            INCORRECT_STATE)])
     ELSE AwaitRequest("createWallet.getAuthOptions",
            [hook EXCEPT !.walletError = NoError, !.walletLoading = TRUE],
            [NoRequest EXCEPT !.path = "POST passkeys/getAuthOptions",
                              !.credentialId = hook.credentialId])
  /\ UNCHANGED <<codec, san, lib, props, largeBlob, server>>

CreateWallet ==
  /\ Invoke("createWallet")
  /\ IF Running THEN UNCHANGED <<hook, op, request, ceremony>>
     ELSE
     IF props.jwt = "null" \/ hook.credentialId = "null"
        \/ props.device.st = "undefined"
     THEN Finish([hook EXCEPT !.walletError = PasskeyError(
            "Attempted to create wallet before JWT, credentialId, and device are available",
            INCORRECT_STATE)])
     ELSE AwaitRequest("createWallet.getAuthOptions",
            [hook EXCEPT !.walletError = NoError, !.walletLoading = TRUE],
            [NoRequest EXCEPT !.path = "POST passkeys/getAuthOptions",
                              !.credentialId = hook.credentialId])
  /\ UNCHANGED <<codec, san, lib, props, largeBlob, server>>

\* the auth options arrive; exportXpub generates and encodes a seed phrase
\* and writeLargeBlob starts the write ceremony
CreateWalletAuthOptions ==
  /\ op.pc = "createWallet.getAuthOptions"
  /\ \E outcome \in ApiOutcomes, seedPhrase \in Mnemonics :
       IF outcome # "data"
       THEN Finish([hook EXCEPT
              !.walletError = parsePasskeyError(
                 "Failed to get auth options to write blob", ApiFailure(outcome)),
              !.walletLoading = FALSE])
       ELSE LET blob == encodeSeedPhrase(seedPhrase, BLOB_VERSION_CURRENT)
            IN IF blob.st = "throw"
               THEN Finish([hook EXCEPT
                      !.walletError = parsePasskeyError(
                         "Failed to export xpub from passkey", blob.error),
                      !.walletLoading = FALSE])
               ELSE /\ hook' = hook
                    /\ op' = [op EXCEPT !.pc = "createWallet.ceremony",
                                        !.seedPhrase = seedPhrase,
                                        !.optionsToken = "optToken"]
                    /\ request' = NoRequest
                    /\ ceremony' =
                         [kind |-> "write",
                          allowCredentials |->
                            AllowCredentials({base64ToUint8Array(
                              normalizeCredentialId(
                                CredentialIdText(hook.credentialId)))}),
                          write |-> [st |-> "value",
                                     buf |-> stringToArrayBuffer(blob.text)],
                          read |-> FALSE,
                          timeout |-> PROMPT_TIMEOUT_MS]
  /\ UNCHANGED <<codec, san, lib, ui, props, largeBlob, server, calls>>

\* what a get-assertion ceremony with a write directive resolves with: the
\* largeBlob output carries `written` only
WriteAssertion(outcome) ==
  CASE outcome = "null" -> NullAssertion
    [] outcome = "missing" ->
         Assertion("object", "cred", MissingPrf, MissingLargeBlob)
    [] outcome = "notWritten" ->
         Assertion("object", "cred", MissingPrf,
                   LargeBlobOutput("object", MissingBuffer, "false"))
    [] outcome = "noFlag" ->
         Assertion("object", "cred", MissingPrf,
                   LargeBlobOutput("object", MissingBuffer, "missing"))
    [] OTHER ->
         Assertion("object", "cred", MissingPrf,
                   LargeBlobOutput("object", MissingBuffer, "true"))

\* the device update request of createWallet
addWalletRequest(xPubExport, token) ==
  [NoRequest EXCEPT !.path = "PUT devices/{deviceId}",
                    !.deviceId = props.deviceId,
                    !.xpub = xPubExport.xpub,
                    !.optionsToken = token,
                    !.authenticationResponse = xPubExport.authenticationResponse,
                    !.blobVersion = xPubExport.blobVersion,
                    !.hardenedKeyPathPurpose = props.device.hardenedKeyPathPurpose,
                    !.token = props.jwt]

\* navigator.credentials.get settles; exportXpub derives the xpub and
\* createWallet sends the device update
CreateWalletCeremony ==
  /\ op.pc = "createWallet.ceremony"
  /\ \E outcome \in {"reject", "null", "missing", "notWritten", "written"} :
       LET written == IF outcome = "reject" THEN CallThrow(NotAllowedError)
                      ELSE writeLargeBlobResult(WriteAssertion(outcome))
           xPubExport ==
             [xpub |-> exportedXpub(op.seedPhrase,
                                    props.device.hardenedKeyPathPurpose),
              authenticationResponse |-> written.authenticationResponse,
              blobVersion |-> BLOB_VERSION_CURRENT]
       IN /\ largeBlob' = IF outcome = "written" THEN ceremony.write
                          ELSE largeBlob
          /\ IF written.st = "throw"
             THEN Finish([hook EXCEPT
                    !.walletError = parsePasskeyError(
                       "Failed to export xpub from passkey", written.error),
                    !.walletLoading = FALSE])
             ELSE /\ hook' = [hook EXCEPT !.deviceUpdateLoading = TRUE]
                  /\ op' = [op EXCEPT !.pc = "createWallet.addWallet",
                                      !.seedPhrase = <<>>,
                                      !.exported = xPubExport.xpub]
                  /\ request' = addWalletRequest(xPubExport, op.optionsToken)
                  /\ ceremony' = NoCeremony
  /\ UNCHANGED <<codec, san, lib, ui, props, server, calls>>

\* CreateWalletUpdated assigning xPub whatever the server answers
CreateWalletUpdated_optimistic ==
  /\ op.pc = "createWallet.addWallet"
  /\ \E outcome \in ApiOutcomes, backupToken \in {"undefined", "backup"},
        applied \in BOOLEAN :
       /\ server' = IF outcome = "data" \/ (outcome = "error" /\ applied)
                     THEN request.xpub ELSE server
       /\ IF outcome # "data"
          THEN Finish([hook EXCEPT
                 !.xPub = op.exported,
                 !.walletError = parsePasskeyError(
                    "Seed phrase written to passkey, but API call failed to update device",
                    ApiFailure(outcome)),
                 !.deviceUpdateLoading = FALSE,
                 !.walletLoading = FALSE])
          ELSE Finish([hook EXCEPT !.xPub = op.exported,
                                   !.backupToken = backupToken,
                                   !.walletLoading = FALSE])
  /\ UNCHANGED <<codec, san, lib, ui, props, largeBlob, calls>>

\* the server answers the device update.  An update that was answered was
\* applied; when the fetch rejects, the server may have applied the update
\* before the response was lost
CreateWalletUpdated ==
  /\ op.pc = "createWallet.addWallet"
  /\ \E outcome \in ApiOutcomes, backupToken \in {"undefined", "backup"},
        applied \in BOOLEAN :
       /\ server' = IF outcome = "data" \/ (outcome = "error" /\ applied)
                     THEN request.xpub ELSE server
       /\ IF outcome # "data"
          THEN Finish([hook EXCEPT
                 !.walletError = parsePasskeyError(
                    "Seed phrase written to passkey, but API call failed to update device",
                    ApiFailure(outcome)),
                 !.deviceUpdateLoading = FALSE,
                 !.walletLoading = FALSE])
          ELSE Finish([hook EXCEPT !.xPub = op.exported,
                                   !.backupToken = backupToken,
                                   !.walletLoading = FALSE])
  /\ UNCHANGED <<codec, san, lib, ui, props, largeBlob, calls>>

(***************************************************************************)
(* Reading the seed phrase back: readLargeBlob and decodeSeedPhrase        *)
(***************************************************************************)
\* the read ceremony of readLargeBlob, for the credentials of the options
readCeremony(options) ==
  [kind |-> "read", allowCredentials |-> allowCredentials(options),
   write |-> MissingBuffer, read |-> TRUE, timeout |-> PROMPT_TIMEOUT_MS]

ReadOutcomes == {"reject", "null", "missing", "noBlob", "blobRead"}

\* what a get-assertion ceremony with a read directive resolves with: the
\* largeBlob output carries the blob the authenticator holds, if any
ReadAssertion(outcome) ==
  CASE outcome = "null" -> NullAssertion
    [] outcome = "missing" ->
         Assertion("object", "cred", MissingPrf, MissingLargeBlob)
    [] outcome = "noBlob" ->
         Assertion("object", "cred", MissingPrf,
                   LargeBlobOutput("object", MissingBuffer, "missing"))
    [] OTHER ->
         Assertion("object", "cred", MissingPrf,
                   LargeBlobOutput("object", largeBlob, "missing"))

\* the seed phrase a function of passkeyDevice.ts holds after its read
\* ceremony settled, or the error it throws
SeedPhraseRead(outcome) ==
  IF outcome = "reject" THEN CallThrow(NotAllowedError)
  ELSE readSeedPhrase(ReadAssertion(outcome))

\* the signature submission of signHealthCheck and signTransaction
addSignedMessageRequest(signatures, signatureId) ==
  [NoRequest EXCEPT !.path = "PUT signatures/{signatureId}",
                    !.externalSignatures = signatures,
                    !.signatureId = signatureId,
                    !.token = props.jwt]

(***************************************************************************)
(* signHealthCheck, with getSignedMessage                                  *)
(***************************************************************************)
SignHealthCheck ==
  /\ Invoke("signHealthCheck")
  /\ IF Running THEN UNCHANGED <<hook, op, request, ceremony>>
     ELSE
     IF props.jwt = "null" \/ props.signature.st = "undefined"
        \/ props.signature.walletAccountId = "null"
     THEN Finish([hook EXCEPT !.walletError = PasskeyError(
            "Unable to sign health check without JWT and walletAccountId from signature key",
            INCORRECT_STATE)])
     ELSE AwaitRequest("signHealthCheck.getSignOptions",
            [hook EXCEPT !.signError = NoError, !.signatureLoading = TRUE],
            [NoRequest EXCEPT !.path = "POST passkeys/getSignOptions",
                              !.signatureId = props.signature.id,
                              !.token = props.jwt])
  /\ UNCHANGED <<codec, san, lib, props, largeBlob, server>>

SignHealthCheckOptions ==
  /\ op.pc = "signHealthCheck.getSignOptions"
  /\ \E outcome \in ApiOutcomes :
       IF outcome # "data"
       THEN Finish([hook EXCEPT
              !.signError = parsePasskeyError(
                 "Failed to get auth options to read blob for health check",
                 ApiFailure(outcome)),
              !.signatureLoading = FALSE])
       ELSE AwaitRequest("signHealthCheck.getWalletAccount", hook,
              [NoRequest EXCEPT !.path = "GET walletAccounts/{walletAccountId}",
                                !.walletAccountId = props.signature.walletAccountId,
                                !.token = props.jwt])
  /\ UNCHANGED <<codec, san, lib, ui, props, largeBlob, server, calls>>

\* the wallet account arrives; getSignedMessage starts the read ceremony
SignHealthCheckAccount ==
  /\ op.pc = "signHealthCheck.getWalletAccount"
  /\ \E outcome \in ApiOutcomes, walletAccount \in WalletAccounts :
       IF outcome # "data"
       THEN Finish([hook EXCEPT
              !.signError = parsePasskeyError(
                 "Failed to get wallet account for health check",
                 ApiFailure(outcome)),
              !.signatureLoading = FALSE])
       ELSE /\ hook' = hook
            /\ op' = [op EXCEPT !.pc = "signHealthCheck.ceremony",
                                !.walletAccount = walletAccount]
            /\ request' = NoRequest
            /\ ceremony' = readCeremony(ServerCandidates)
  /\ UNCHANGED <<codec, san, lib, ui, props, largeBlob, server, calls>>

\* the read ceremony settles; getSignedMessage decodes and signs, and the
\* signature is submitted
SignHealthCheckCeremony ==
  /\ op.pc = "signHealthCheck.ceremony"
  /\ \E outcome \in ReadOutcomes :
       LET seed == SeedPhraseRead(outcome)
           coin == IF op.walletAccount.coinType \in ETH_COIN_TYPES
                   THEN COIN_eth ELSE COIN_btc
       IN IF seed.st = "throw"
          THEN Finish([hook EXCEPT
                 !.signError = parsePasskeyError(
                    "Failed to sign health check message", seed.error),
                 !.signatureLoading = FALSE])
          ELSE AwaitRequest("signHealthCheck.addSignedMessage", hook,
                 addSignedMessageRequest(
                   signedMessage(coin, op.walletAccount, seed.text,
                                 props.signature.id),
                   props.signature.id))
  /\ UNCHANGED <<codec, san, lib, ui, props, largeBlob, server, calls>>

SignHealthCheckSubmitted ==
  /\ op.pc = "signHealthCheck.addSignedMessage"
  /\ \E outcome \in ApiOutcomes :
       IF outcome # "data"
       THEN Finish([hook EXCEPT
              !.signError = parsePasskeyError(
                 "Failed to submit signed health check message",
                 ApiFailure(outcome)),
              !.signatureLoading = FALSE])
       ELSE Finish([hook EXCEPT !.signatureResult = "signedData",
                                !.signatureLoading = FALSE])
  /\ UNCHANGED <<codec, san, lib, ui, props, largeBlob, server, calls>>

(***************************************************************************)
(* signTransaction, with passkeyDevice.signTransaction                     *)
(***************************************************************************)
\* String.prototype.toUpperCase on the coin identifiers of the model
toUpperCase(coin) ==
  CASE coin = "teth" -> "TETH"
    [] coin = "tethc" -> "TETHC"
    [] coin = "eth" -> "ETH"
    [] coin = "btc" -> "BTC"
    [] OTHER -> coin

\* formatSignTxParams: the parameters of passkeyDevice.signTransaction are
\* the coin and key path of the wallet account and the payload of toSign
formatSignTxParams(transactionInputs) ==
  [coin |-> transactionInputs.walletAccount.coinType,
   psbt |-> transactionInputs.psbt,
   safeAddress |-> transactionInputs.safeAddress,
   walletAccount |-> transactionInputs.walletAccount,
   keyPathAddress |-> 0]

\* passkeyDevice.signTransaction up to its read ceremony: the error thrown
\* before any ceremony, or NoError when the read ceremony is started
\* the PSBT handed to the authenticator step unparsed
signTransactionRejects_parseLate(params) ==
  IF toUpperCase(params.coin) \in BTC_COIN_TYPES
  THEN IF params.psbt = "missing" THEN PlainError("psbt not found")
       ELSE NoError
  ELSE IF toUpperCase(params.coin) \in ETH_COIN_TYPES
  THEN IF params.safeAddress = "null"
       THEN PlainError("Safe address required for Gnosis signature")
       ELSE NoError
  ELSE PlainError("")

signTransactionRejects(params) ==
  IF toUpperCase(params.coin) \in BTC_COIN_TYPES
  THEN IF params.psbt = "missing" THEN PlainError("psbt not found")
       ELSE IF params.psbt = "invalid" THEN PlainError("Psbt.fromHex")
       ELSE NoError
  ELSE IF toUpperCase(params.coin) \in ETH_COIN_TYPES
  THEN IF params.safeAddress = "null"
       THEN PlainError("Safe address required for Gnosis signature")
       ELSE NoError
  ELSE PlainError("")

\* getSignedBitcoinTransaction: psbt.signAllInputsHD(hdRoot), signatures
signedBitcoinTransaction(seedPhrase) ==
  Derived("btcSignatures", seedPhrase, MasterPath, "psbt")

\* getGnosisSafeSignature: coin === COIN.teth || coin === COIN.tethC
isTestnet(coin) == coin = COIN_teth \/ coin = COIN_tethC

\* getGnosisSafeSignature: the Safe transaction hash signed with the key
\* at m/purpose[']/coinType/account/0[/keyPathAddress]
gnosisSafeSignature(params, seedPhrase) ==
  Derived("safeSignature", seedPhrase,
          ethSignerPath(params.walletAccount.keyPathPurpose,
                        params.walletAccount.keyPathPurposeIsHardened,
                        params.walletAccount.keyPathCoinType,
                        params.walletAccount.keyPathAccount,
                        params.keyPathAddress),
          "safeTxHash")

SignTransaction ==
  /\ Invoke("signTransaction")
  /\ IF Running THEN UNCHANGED <<hook, op, request, ceremony>>
     ELSE
     IF props.jwt = "null" \/ props.transactionInputs.st = "undefined"
     THEN Finish([hook EXCEPT !.signError = PasskeyError(
            "Cannot sign transaction without JWT and transaction inputs",
            INCORRECT_STATE)])
     ELSE IF props.transactionInputs.walletAccount = NoWalletAccount
             \/ props.transactionInputs.signature.st = "undefined"
             \/ props.transactionInputs.toSign = "null"
     THEN Finish([hook EXCEPT !.signError = PasskeyError(
            "Transaction inputs require walletAccount, signature, and toSign data",
            INCORRECT_STATE)])
     ELSE AwaitRequest("signTransaction.getSignOptions",
            [hook EXCEPT !.signError = NoError, !.signatureLoading = TRUE],
            [NoRequest EXCEPT !.path = "POST passkeys/getSignOptions",
                              !.signatureId = props.transactionInputs.signature.id,
                              !.token = props.jwt])
  /\ UNCHANGED <<codec, san, lib, props, largeBlob, server>>

\* the sign options arrive; passkeyDevice.signTransaction dispatches on
\* the coin and starts the read ceremony
SignTransactionOptions ==
  /\ op.pc = "signTransaction.getSignOptions"
  /\ \E outcome \in ApiOutcomes :
       LET rejected ==
             signTransactionRejects(formatSignTxParams(props.transactionInputs))
       IN IF outcome # "data"
          THEN Finish([hook EXCEPT
                 !.signError = parsePasskeyError(
                    "Failed to get auth options to read blob for transaction",
                    ApiFailure(outcome)),
                 !.signatureLoading = FALSE])
          ELSE IF rejected # NoError
          THEN Finish([hook EXCEPT
                 !.signError = parsePasskeyError(
                    "Failed to sign transaction with passkey", rejected),
                 !.signatureLoading = FALSE])
          ELSE /\ hook' = hook
               /\ op' = [op EXCEPT !.pc = "signTransaction.ceremony"]
               /\ request' = NoRequest
               /\ ceremony' = readCeremony(ServerCandidates)
  /\ UNCHANGED <<codec, san, lib, ui, props, largeBlob, server, calls>>

\* the read ceremony settles.  Bitcoin: the PSBT is signed and the
\* signatures are submitted.  Ethereum: the Safe collaborator is asked for
\* the transaction hash, the decoded seed phrase being held meanwhile
SignTransactionCeremony ==
  /\ op.pc = "signTransaction.ceremony"
  /\ \E outcome \in ReadOutcomes :
       LET seed == SeedPhraseRead(outcome)
           params == formatSignTxParams(props.transactionInputs)
       IN IF seed.st = "throw"
          THEN Finish([hook EXCEPT
                 !.signError = parsePasskeyError(
                    "Failed to sign transaction with passkey", seed.error),
                 !.signatureLoading = FALSE])
          ELSE IF toUpperCase(params.coin) \in BTC_COIN_TYPES
          THEN AwaitRequest("signTransaction.addSignedMessage", hook,
                 addSignedMessageRequest(signedBitcoinTransaction(seed.text),
                                         props.transactionInputs.signature.id))
          ELSE /\ hook' = hook
               /\ op' = [op EXCEPT !.pc = "signTransaction.getTransactionHash",
                                   !.seedPhrase = seed.text]
               /\ request' = [NoRequest EXCEPT
                    !.path = "safe.getTransactionHash",
                    !.token = props.jwt,
                    !.safe = GnosisSafe(params.safeAddress,
                                        isTestnet(params.coin))]
               /\ ceremony' = NoCeremony
  /\ UNCHANGED <<codec, san, lib, ui, props, largeBlob, server, calls>>

\* the Safe transaction hash arrives; it is signed and submitted
SignTransactionHash ==
  /\ op.pc = "signTransaction.getTransactionHash"
  /\ \E outcome \in {"error", "data"} :
       IF outcome # "data"
       THEN Finish([hook EXCEPT
              !.signError = parsePasskeyError(
                 "Failed to sign transaction with passkey", ApiError),
              !.signatureLoading = FALSE])
       ELSE /\ hook' = hook
            /\ op' = [op EXCEPT !.pc = "signTransaction.addSignedMessage",
                                !.seedPhrase = <<>>]
            /\ request' =
                 addSignedMessageRequest(
                   gnosisSafeSignature(formatSignTxParams(props.transactionInputs),
                                       op.seedPhrase),
                   props.transactionInputs.signature.id)
            /\ ceremony' = NoCeremony
  /\ UNCHANGED <<codec, san, lib, ui, props, largeBlob, server, calls>>

SignTransactionSubmitted ==
  /\ op.pc = "signTransaction.addSignedMessage"
  /\ \E outcome \in ApiOutcomes :
       IF outcome # "data"
       THEN Finish([hook EXCEPT
              !.signError = parsePasskeyError(
                 "Signing successful, but failed to submit to server",
                 ApiFailure(outcome)),
              !.signatureLoading = FALSE])
       ELSE Finish([hook EXCEPT !.signatureResult = "signedData",
                                !.signatureLoading = FALSE])
  /\ UNCHANGED <<codec, san, lib, ui, props, largeBlob, server, calls>>

(***************************************************************************)
(* getSeedPhrase, with getStoredSeed                                       *)
(***************************************************************************)
GetSeedPhrase ==
  /\ Invoke("getSeedPhrase")
  /\ IF Running THEN UNCHANGED <<hook, op, request, ceremony>>
     ELSE
     IF props.jwt = "null"
        \/ (hook.credentialId = "null" /\ props.deviceId = "null")
     THEN Finish([hook EXCEPT !.phraseError =
                    PasskeyError("missing JWT", UNAUTHORIZED)])
     ELSE AwaitRequest("getSeedPhrase.getSignOptions",
            [hook EXCEPT !.phraseLoading = TRUE, !.phraseError = NoError],
            [NoRequest EXCEPT
               !.path = "POST passkeys/getSignOptions",
               !.deviceId = IF props.device.st = "object" THEN props.device.id
                            ELSE props.deviceId,
               !.token = IF hook.backupToken # "undefined" THEN hook.backupToken
                         ELSE props.jwt])
  /\ UNCHANGED <<codec, san, lib, props, largeBlob, server>>

\* the sign options arrive; getStoredSeed starts the read ceremony.  A
\* response with neither error nor data makes signOptionsResult.data.options
\* throw: the operation ends there, its promise rejected
GetSeedPhraseOptions ==
  /\ op.pc = "getSeedPhrase.getSignOptions"
  /\ \E outcome \in {"error", "neither", "data"} :
       CASE outcome = "error" ->
              Finish([hook EXCEPT
                !.phraseError = parsePasskeyError(
                   "Failed to get auth options to read blob", ApiError),
                !.phraseLoading = FALSE])
         [] outcome = "neither" -> Finish(hook)
         [] OTHER ->
              /\ hook' = hook
              /\ op' = [op EXCEPT !.pc = "getSeedPhrase.ceremony"]
              /\ request' = NoRequest
              /\ ceremony' = readCeremony(ServerCandidates)
  /\ UNCHANGED <<codec, san, lib, ui, props, largeBlob, server, calls>>

\* the read ceremony settles; the phrase is split into its words
GetSeedPhraseCeremony ==
  /\ op.pc = "getSeedPhrase.ceremony"
  /\ \E outcome \in ReadOutcomes :
       LET seed == SeedPhraseRead(outcome)
       IN IF seed.st = "throw"
          THEN Finish([hook EXCEPT
                 !.phraseError = parsePasskeyError(
                    "Failed to read seed phrase from passkey prompt", seed.error),
                 !.phraseLoading = FALSE])
          ELSE Finish([hook EXCEPT !.phrase = Split(seed.text, SPACE),
                                   !.phraseSet = TRUE])
  /\ UNCHANGED <<codec, san, lib, ui, props, largeBlob, server, calls>>

(***************************************************************************)
(* The functions of passkeyUtils.ts and passkeyDevice.ts called directly,  *)
(* one call after the other, on an authenticator that stores what a write  *)
(* ceremony reports as written.  A call runs from one await to the next in *)
(* one step.                                                               *)
(***************************************************************************)
InitLib ==
  /\ ui = UiUnused
  /\ codec = CodecIdle
  /\ san = SanIdle
  /\ props = Props("null", "null", NoDevice, NoSignature, NoTransactionInputs)
  /\ hook = HookInitial
  /\ op = [OpIdle EXCEPT !.pc = "unused"]
  /\ request = NoRequest
  /\ ceremony = NoCeremony
  /\ largeBlob \in StoredBlobs
  /\ server = NoValue
  /\ lib = LibIdle
  /\ calls = 0

LibCanCall == lib.pc = "idle"

\* the caller has taken the result of the call; the next call can be made
CallSettled ==
  /\ lib.pc = "done"
  /\ lib' = [LibIdle EXCEPT !.exported = lib.exported]
  /\ UNCHANGED <<codec, san, hookVars>>

\* the call has made its navigator.credentials.get call and awaits it
LibAwaitCeremony(fn, params, seedPhrase, c) ==
  /\ lib' = [lib EXCEPT !.pc = "ceremony", !.fn = fn, !.params = params,
                        !.seedPhrase = seedPhrase, !.settled = "none",
                        !.assertion = NullAssertion, !.prompts = 1,
                        !.result = NoLibResult]
  /\ ceremony' = c
  /\ UNCHANGED <<codec, san, hookVars_lib>>

\* the get-assertion ceremony of writeLargeBlob
writeCeremony(credentialId, blob) ==
  [kind |-> "write",
   allowCredentials |->
     AllowCredentials({base64ToUint8Array(normalizeCredentialId(credentialId))}),
   write |-> [st |-> "value", buf |-> stringToArrayBuffer(blob)],
   read |-> FALSE, timeout |-> PROMPT_TIMEOUT_MS]

\* blobs a caller hands to writeLargeBlob
WriteBlobs == {<<>>, NotWords, SomeBlob}

\* hardenedKeyPathPurpose arguments: none (null or undefined), 0, 84
Purposes == {-1, 0, 84}

\* coin arguments: supported coins and one that is not
LibCoins == {COIN_btc, COIN_eth, COIN_tethC, "XRP"}

\* key path arguments: complete, and with one component undefined
LibAccounts(coin) ==
  { WalletAccount(coin, k[1], h, k[2], k[3]) :
      k \in {<<44, 60, 0>>, <<-1, 60, 0>>, <<44, -1, 0>>, <<44, 60, -1>>},
      h \in BOOLEAN }

\* credentialId arguments: the id of the credential in either encoding
LibCredentialIds == {IdBase64(CredentialBytes), IdBase64Url(CredentialBytes)}

\* options.allowCredentials of a direct call: none, one candidate in either
\* encoding, two candidates, the same credential twice
LibCandidates ==
  { NoCandidates, ServerCandidates,
    Candidates(<<IdBase64Url(CredentialBytes)>>),
    Candidates(<<IdBase64Url(CredentialBytes), IdBase64(OtherCredentialBytes)>>),
    Candidates(<<IdBase64(CredentialBytes), IdBase64Url(CredentialBytes)>>) }

CallWriteLargeBlob ==
  /\ LibCanCall
  /\ \E blob \in WriteBlobs, credentialId \in LibCredentialIds :
       LibAwaitCeremony("writeLargeBlob",
         [NoParams EXCEPT !.blob = blob, !.credentialId = credentialId], <<>>,
         writeCeremony(credentialId, blob))

CallReadLargeBlob ==
  /\ LibCanCall
  /\ \E options \in LibCandidates :
       LibAwaitCeremony("readLargeBlob", [NoParams EXCEPT !.options = options],
                        <<>>, readCeremony(options))

\* exportXpub: generateMnemonic, encodeSeedPhrase, then writeLargeBlob
CallExportXpub ==
  /\ LibCanCall
  /\ \E seedPhrase \in Mnemonics, purpose \in Purposes :
       LET blob == encodeSeedPhrase(seedPhrase, BLOB_VERSION_CURRENT)
           credentialId == IdBase64Url(CredentialBytes)
           params == [NoParams EXCEPT !.hardenedKeyPathPurpose = purpose,
                                      !.credentialId = credentialId]
       IN IF blob.st = "throw"
          THEN /\ lib' = [lib EXCEPT !.pc = "done", !.fn = "exportXpub",
                                     !.params = params, !.seedPhrase = <<>>,
                                     !.settled = "none",
                                     !.assertion = NullAssertion,
                                     !.prompts = 0,
                                     !.result = LibThrow(blob.error)]
               /\ UNCHANGED <<codec, san, hookVars_lib, ceremony>>
          ELSE LibAwaitCeremony("exportXpub",
                 [params EXCEPT !.blob = blob.text], seedPhrase,
                 writeCeremony(credentialId, blob.text))

\* getSignedMessage: readLargeBlob is the first thing it awaits
CallGetSignedMessage ==
  /\ LibCanCall
  /\ \E coin \in LibCoins :
       \E walletAccount \in LibAccounts(coin) :
         LibAwaitCeremony("getSignedMessage",
           [NoParams EXCEPT !.coin = coin, !.walletAccount = walletAccount,
                            !.message = "message",
                            !.options = ServerCandidates],
           <<>>, readCeremony(ServerCandidates))

\* passkeyDevice.signTransaction: the switch over the coin, the checks of
\* the signer it selects, then readLargeBlob
CallSignTransaction ==
  /\ LibCanCall
  /\ \E coin \in LibCoins \cup {"btc", COIN_teth, "teth", "tethc"},
        keyPathAddress \in {-1, 0, 5},
        inputs \in {<<"missing", "null">>, <<"invalid", "null">>,
                   <<"valid", "safe">>} :
       \E walletAccount \in LibAccounts(coin) :
         LET params == [NoParams EXCEPT !.coin = coin,
                                        !.walletAccount = walletAccount,
                                        !.keyPathAddress = keyPathAddress,
                                        !.psbt = inputs[1],
                                        !.safeAddress = inputs[2],
                                        !.options = ServerCandidates]
         IN IF signTransactionRejects(params) # NoError
            THEN /\ lib' = [lib EXCEPT !.pc = "done", !.fn = "signTransaction",
                                       !.params = params, !.seedPhrase = <<>>,
                                       !.settled = "none",
                                       !.assertion = NullAssertion,
                                       !.prompts = 0,
                                       !.result =
                                         LibThrow(signTransactionRejects(params))]
                 /\ UNCHANGED <<codec, san, hookVars_lib, ceremony>>
            ELSE LibAwaitCeremony("signTransaction", params, <<>>,
                                  readCeremony(params.options))

CallGetStoredSeed ==
  /\ LibCanCall
  /\ LibAwaitCeremony("getStoredSeed",
                      [NoParams EXCEPT !.options = ServerCandidates], <<>>,
                      readCeremony(ServerCandidates))

WriteOutcomes ==
  {"reject", "null", "missing", "noFlag", "notWritten", "written"}

\* the write ceremony settles: writeLargeBlob returns or throws, and
\* exportXpub, when writeLargeBlob returned, derives the xpub and returns
\* exportXpub going on to derive and return when writeLargeBlob threw
exportXpubResult_ignoreWrite(seedPhrase, hardenedKeyPathPurpose, written) ==
  LibReturn(written.authenticationResponse, <<>>,
            exportedXpub(seedPhrase, hardenedKeyPathPurpose),
            BLOB_VERSION_CURRENT)

exportXpubResult(seedPhrase, hardenedKeyPathPurpose, written) ==
  IF written.st = "throw" THEN LibThrow(written.error)
  ELSE LibReturn(written.authenticationResponse, <<>>,
                 exportedXpub(seedPhrase, hardenedKeyPathPurpose),
                 BLOB_VERSION_CURRENT)

WriteCeremonySettles ==
  /\ lib.pc = "ceremony"
  /\ ceremony.kind = "write"
  /\ \E outcome \in WriteOutcomes :
       LET written == IF outcome = "reject" THEN CallThrow(NotAllowedError)
                      ELSE writeLargeBlobResult(WriteAssertion(outcome))
           result ==
             IF lib.fn = "exportXpub"
             THEN exportXpubResult(lib.seedPhrase,
                                   lib.params.hardenedKeyPathPurpose, written)
             ELSE IF written.st = "throw" THEN LibThrow(written.error)
             ELSE LibReturn(written.authenticationResponse, <<>>, NoValue, <<>>)
       IN /\ largeBlob' = IF outcome = "written" THEN ceremony.write
                          ELSE largeBlob
          /\ lib' = [lib EXCEPT
               !.pc = "done",
               !.settled = IF outcome = "reject" THEN "reject" ELSE "resolve",
               !.assertion = IF outcome = "reject" THEN NullAssertion
                             ELSE WriteAssertion(outcome),
               !.result = result,
               !.exported =
                 IF lib.fn = "exportXpub" /\ result.st = "return"
                 THEN [st |-> "some", seedPhrase |-> lib.seedPhrase,
                       xpub |-> result.value,
                       blobVersion |-> result.blobVersion,
                       hardenedKeyPathPurpose |->
                         lib.params.hardenedKeyPathPurpose,
                       replaced |-> lib.exported.st = "some"]
                 ELSE IF outcome = "written" THEN NoExport
                 ELSE @]
          /\ ceremony' = NoCeremony
  /\ UNCHANGED <<codec, san, ui, props, hook, op, request, server, calls>>

\* getSignedMessage once readLargeBlob and decodeSeedPhrase have run: the
\* key is derived at the path and the message signed
getSignedMessageResult(params, seed) ==
  IF seed.st = "throw" THEN LibThrow(seed.error)
  ELSE IF derivePath(signedMessagePath(params.coin, params.walletAccount)).st
            = "throw"
  THEN LibThrow(TypeError)
  ELSE LibReturn(NoAuthenticationResponse, <<>>,
                 signedMessage(params.coin, params.walletAccount, seed.text,
                               params.message),
                 <<>>)

\* getSignedBitcoinTransaction once the seed phrase is there
getSignedBitcoinTransactionResult(seed) ==
  IF seed.st = "throw" THEN LibThrow(seed.error)
  ELSE LibReturn(NoAuthenticationResponse, <<>>,
                 signedBitcoinTransaction(seed.text), <<>>)

\* getGnosisSafeSignature once the transaction hash is there: the signer
\* is built by ethSignerFromSeedAndPath and signs the hash
getGnosisSafeSignatureResult(params, seedPhrase) ==
  IF derivePath(ethSignerPath(params.walletAccount.keyPathPurpose,
                              params.walletAccount.keyPathPurposeIsHardened,
                              params.walletAccount.keyPathCoinType,
                              params.walletAccount.keyPathAccount,
                              params.keyPathAddress)).st = "throw"
  THEN LibThrow(TypeError)
  ELSE LibReturn(NoAuthenticationResponse, <<>>,
                 gnosisSafeSignature(params, seedPhrase), <<>>)

\* the read ceremony settles with the outcome: readLargeBlob returns or
\* throws, and its caller decodes the blob and goes on
ReadSettles(outcome) ==
  LET read == IF outcome = "reject" THEN CallThrow(NotAllowedError)
              ELSE readLargeBlobResult(ReadAssertion(outcome))
      seed == SeedPhraseRead(outcome)
      settled == [lib EXCEPT
        !.settled = IF outcome = "reject" THEN "reject" ELSE "resolve",
        !.assertion = IF outcome = "reject" THEN NullAssertion
                      ELSE ReadAssertion(outcome)]
      done(result) == [settled EXCEPT !.pc = "done", !.result = result]
  IN /\ lib' =
          CASE lib.fn = "readLargeBlob" ->
                 done(IF read.st = "throw" THEN LibThrow(read.error)
                      ELSE LibReturn(NoAuthenticationResponse, read.text,
                                     NoValue, <<>>))
            [] lib.fn = "getStoredSeed" ->
                 done(IF seed.st = "throw" THEN LibThrow(seed.error)
                      ELSE LibReturn(NoAuthenticationResponse, seed.text,
                                     NoValue, <<>>))
            [] lib.fn = "getSignedMessage" ->
                 done(getSignedMessageResult(lib.params, seed))
            [] OTHER ->
                 IF toUpperCase(lib.params.coin) \in BTC_COIN_TYPES
                 THEN done(getSignedBitcoinTransactionResult(seed))
                 ELSE IF seed.st = "throw" THEN done(LibThrow(seed.error))
                 ELSE [settled EXCEPT
                        !.pc = "getTransactionHash",
                        !.seedPhrase = seed.text,
                        !.safe = GnosisSafe(lib.params.safeAddress,
                                            isTestnet(lib.params.coin))]
     /\ ceremony' = NoCeremony
     /\ UNCHANGED <<codec, san, hookVars_lib>>

\* a rejected read ceremony started once more by the function itself
ReadCeremonySettles_retry ==
  /\ lib.pc = "ceremony"
  /\ ceremony.kind = "read"
  /\ \E outcome \in ReadOutcomes :
       IF outcome = "reject" /\ lib.prompts < 2
       THEN /\ lib' = [lib EXCEPT !.prompts = @ + 1]
            /\ UNCHANGED <<codec, san, hookVars>>
       ELSE ReadSettles(outcome)

ReadCeremonySettles ==
  /\ lib.pc = "ceremony"
  /\ ceremony.kind = "read"
  /\ \E outcome \in ReadOutcomes : ReadSettles(outcome)

\* safe.getTransactionHash settles
TransactionHashSettles ==
  /\ lib.pc = "getTransactionHash"
  /\ \E outcome \in {"error", "data"} :
       lib' = [lib EXCEPT
         !.pc = "done",
         !.seedPhrase = <<>>,
         !.result = IF outcome = "error" THEN LibThrow(ApiError)
                    ELSE getGnosisSafeSignatureResult(lib.params,
                                                      lib.seedPhrase)]
  /\ UNCHANGED <<codec, san, hookVars>>

(***************************************************************************)
(* The pages that use the hook: YubikeyRegister (setup, then export) and   *)
(* YubikeySign.  The page shows the component of the current step; a       *)
(* loading component calls its operation when it is mounted, and the       *)
(* operations are called by nothing else.  One action is one handler or    *)
(* one run of an effect.                                                   *)
(***************************************************************************)
pageVars ==
  <<codec, san, lib, props, op, request, ceremony, largeBlob, server, calls>>

\* resetErrors going back to the state of a new hook but for the flags
resetErrors_startOver(h) ==
  [HookInitial EXCEPT !.passkeyLoading = h.passkeyLoading,
                      !.walletLoading = h.walletLoading,
                      !.deviceUpdateLoading = h.deviceUpdateLoading,
                      !.signatureLoading = h.signatureLoading,
                      !.phraseLoading = h.phraseLoading]

resetErrors(h) ==
  [h EXCEPT !.passkeyError = NoError, !.walletError = NoError,
            !.signError = NoError, !.phraseError = NoError]

\* the setup page is opened at its start step, or at the export start
\* step by a user who comes from a backup flow; the sign page is opened at
\* its start step
InitUi ==
  /\ codec = CodecIdle
  /\ san = SanIdle
  /\ LibUnused
  /\ hook = HookInitial
  /\ op = OpIdle
  /\ request = NoRequest
  /\ ceremony = NoCeremony
  /\ largeBlob \in StoredBlobs
  /\ server = NoValue
  /\ calls = 0
  /\ \/ /\ props \in SetupProps
        /\ \E step \in {"YUBIKEY_START", "YUBIKEY_EXPORT_START"},
              flag \in BOOLEAN :
             ui = [UiUnused EXCEPT !.page = "setup", !.step = step,
                                   !.enableYubikeySeedExport = flag]
     \/ /\ props \in SignProps
        /\ \E isHealthCheck \in BOOLEAN, passwordReset \in BOOLEAN :
             ui = [UiUnused EXCEPT !.page = "sign", !.step = "YUBIKEY_START",
                                   !.isHealthCheck = isHealthCheck,
                                   !.passwordReset = passwordReset]

\* the second effect of the mounted loading component forwards
LoadingForwards(steps) ==
  /\ ui.step \in steps
  /\ ui.passkeyPrompted
  /\ Forward(hook) # ui.step
  /\ ui' = Show(Forward(hook))
  /\ UNCHANGED <<hook, pageVars>>

\* YubikeySetupStart: continue, choose a different device, or the effect
\* that forwards to the error step
YubikeySetupStart ==
  /\ ui.page = "setup"
  /\ ui.step = "YUBIKEY_START"
  /\ IF hook.passkeyError # NoError
     THEN ui' = Show("YUBIKEY_ERROR")
     ELSE \E step \in {"YUBIKEY_INTERACT_PASSKEY", "DEVICE_SELECTION"} :
            ui' = Show(step)
  /\ UNCHANGED <<hook, pageVars>>

YubikeyPasskeyLoading ==
  /\ ui.page = "setup"
  /\ LoadingForwards({"YUBIKEY_INTERACT_PASSKEY"})

\* YubikeySetupConfirm: continue
YubikeySetupConfirm ==
  /\ ui.page = "setup"
  /\ ui.step = "YUBIKEY_SETUP_CONFIRM"
  /\ ui' = Show("YUBIKEY_INTERACT_WALLET")
  /\ UNCHANGED <<hook, pageVars>>

\* YubikeyWalletLoading: the effect on deviceUpdateLoading starts the
\* timer of WALLET_LOADING_TIME_MIN_MS once; the timer fires
YubikeyWalletLoadingTimer ==
  /\ ui.page = "setup"
  /\ ui.step = "YUBIKEY_INTERACT_WALLET"
  /\ IF ~ui.timerRef
     THEN /\ hook.deviceUpdateLoading
          /\ ui' = [ui EXCEPT !.timerRef = TRUE, !.minimumTimePassed = "false"]
     ELSE /\ ui.minimumTimePassed = "false"
          /\ ui' = [ui EXCEPT !.minimumTimePassed = "true"]
  /\ UNCHANGED <<hook, pageVars>>

YubikeyWalletLoading ==
  /\ ui.page = "setup"
  /\ LoadingForwards({"YUBIKEY_INTERACT_WALLET"})

\* YubikeySuccess: with the export feature, export or skip
YubikeySuccess ==
  /\ ui.page = "setup"
  /\ ui.step = "YUBIKEY_SUCCESS"
  /\ ui.enableYubikeySeedExport
  /\ \E step \in {"YUBIKEY_EXPORT_START", "YUBIKEY_EXPORT_SUCCESS"} :
       ui' = Show(step)
  /\ UNCHANGED <<hook, pageVars>>

\* YubikeyError.onTryAgain
YubikeyError ==
  /\ ui.page = "setup"
  /\ ui.step = "YUBIKEY_ERROR"
  /\ hook.passkeyError # NoError \/ hook.walletError # NoError
  /\ hook' = resetErrors(hook)
  /\ ui' = [Show(IF hook.passkeyError # NoError
                 THEN "YUBIKEY_INTERACT_PASSKEY"
                 ELSE "YUBIKEY_INTERACT_WALLET")
              EXCEPT !.triedAgain = TRUE]
  /\ UNCHANGED pageVars

\* ExportStart: continue or skip
ExportStart ==
  /\ ui.page = "setup"
  /\ ui.step = "YUBIKEY_EXPORT_START"
  /\ \E step \in {"YUBIKEY_EXPORT_LOAD", "YUBIKEY_EXPORT_SUCCESS"} :
       ui' = Show(step)
  /\ UNCHANGED <<hook, pageVars>>

ExportLoading ==
  /\ ui.page = "setup"
  /\ LoadingForwards({"YUBIKEY_EXPORT_LOAD"})

\* ExportView: continue or skip; ExportTest, when it is mounted, draws
\* its target index with Math.random (index 0 without a phrase)
ExportView ==
  /\ ui.page = "setup"
  /\ ui.step = "YUBIKEY_EXPORT_VIEW"
  /\ \/ ui' = Show("YUBIKEY_EXPORT_SUCCESS")
     \/ \E targetIndex \in (IF hook.phraseSet THEN 1..Len(hook.phrase)
                                                ELSE {1}) :
          ui' = [Show("YUBIKEY_EXPORT_TEST") EXCEPT !.targetIndex = targetIndex]
  /\ UNCHANGED <<hook, pageVars>>

\* a word is selected and the selection is taken for the target
ExportTestSelect_anyWord(selected) ==
  /\ hook' = [hook EXCEPT !.phraseConfirmed = TRUE]
  /\ ui' = Show("YUBIKEY_EXPORT_SUCCESS")

\* ExportTest: a word is selected.  The effect on selected confirms the
\* phrase when the word is the one at the target index, and the effect on
\* phraseConfirmed forwards to the success step
ExportTestSelect(selected) ==
  IF selected = ui.targetIndex
  THEN /\ hook' = [hook EXCEPT !.phraseConfirmed = TRUE]
       /\ ui' = Show("YUBIKEY_EXPORT_SUCCESS")
  ELSE /\ hook' = hook
       /\ ui' = [ui EXCEPT !.selected = selected]

\* ExportTest: without a phrase the render forwards to the error step;
\* else go back, skip, or select a word
ExportTest ==
  /\ ui.page = "setup"
  /\ ui.step = "YUBIKEY_EXPORT_TEST"
  /\ IF ~hook.phraseSet
     THEN ui' = Show("YUBIKEY_EXPORT_ERROR") /\ hook' = hook
     ELSE \/ ui' = Show("YUBIKEY_EXPORT_VIEW") /\ hook' = hook
          \/ ui' = Show("YUBIKEY_EXPORT_SUCCESS") /\ hook' = hook
          \/ \E selected \in 1..Len(hook.phrase) : ExportTestSelect(selected)
  /\ UNCHANGED pageVars

\* ExportError.onTryAgain
ExportError ==
  /\ ui.page = "setup"
  /\ ui.step = "YUBIKEY_EXPORT_ERROR"
  /\ hook' = resetErrors(hook)
  /\ ui' = [Show("YUBIKEY_EXPORT_LOAD") EXCEPT !.triedAgain = TRUE]
  /\ UNCHANGED pageVars

\* YubikeyStart of the sign page: continue, choose a different device, or
\* the effect that forwards to the error step
YubikeyStart ==
  /\ ui.page = "sign"
  /\ ui.step = "YUBIKEY_START"
  /\ IF hook.signError # NoError
     THEN ui' = Show(IF ui.isHealthCheck THEN "YUBIKEY_HEALTH_ERROR"
                     ELSE "YUBIKEY_SIGN_ERROR")
     ELSE \E step \in {IF ui.isHealthCheck THEN "YUBIKEY_HEALTH_LOADING"
                       ELSE "YUBIKEY_SIGN_LOADING", "DEVICE_SELECTION"} :
            ui' = Show(step)
  /\ UNCHANGED <<hook, pageVars>>

YubikeySignLoading ==
  /\ ui.page = "sign"
  /\ LoadingForwards({"YUBIKEY_SIGN_LOADING", "YUBIKEY_HEALTH_LOADING"})

\* YubikeySignError.onTryAgain
YubikeySignError ==
  /\ ui.page = "sign"
  /\ ui.step \in {"YUBIKEY_SIGN_ERROR", "YUBIKEY_HEALTH_ERROR"}
  /\ hook.signError # NoError
  /\ hook' = resetErrors(hook)
  /\ ui' = [Show(IF ui.isHealthCheck THEN "YUBIKEY_HEALTH_LOADING"
                 ELSE "YUBIKEY_SIGN_LOADING")
              EXCEPT !.triedAgain = TRUE]
  /\ UNCHANGED pageVars

Init == InitCodec \/ InitSanitize \/ InitHook \/ InitLib \/ InitUi

Next ==
  \/ EncodeSeedPhraseCall
  \/ DecodeEncodedBlob
  \/ DecodeSeedPhraseCall
  \/ SanitizeCall
  \/ CreatePasskey
  \/ CreatePasskeyOptions
  \/ CreatePasskeyCeremony
  \/ CreatePasskeyAdded
  \/ CreateWallet
  \/ CreateWalletAuthOptions
  \/ CreateWalletCeremony
  \/ CreateWalletUpdated
  \/ SignHealthCheck
  \/ SignHealthCheckOptions
  \/ SignHealthCheckAccount
  \/ SignHealthCheckCeremony
  \/ SignHealthCheckSubmitted
  \/ SignTransaction
  \/ SignTransactionOptions
  \/ SignTransactionCeremony
  \/ SignTransactionHash
  \/ SignTransactionSubmitted
  \/ GetSeedPhrase
  \/ GetSeedPhraseOptions
  \/ GetSeedPhraseCeremony
  \/ CallWriteLargeBlob
  \/ CallReadLargeBlob
  \/ CallExportXpub
  \/ CallGetSignedMessage
  \/ CallSignTransaction
  \/ CallGetStoredSeed
  \/ WriteCeremonySettles
  \/ ReadCeremonySettles
  \/ TransactionHashSettles
  \/ CallSettled
  \/ YubikeySetupStart
  \/ YubikeyPasskeyLoading
  \/ YubikeySetupConfirm
  \/ YubikeyWalletLoadingTimer
  \/ YubikeyWalletLoading
  \/ YubikeySuccess
  \/ YubikeyError
  \/ ExportStart
  \/ ExportLoading
  \/ ExportView
  \/ ExportTest
  \/ ExportError
  \/ YubikeyStart
  \/ YubikeySignLoading
  \/ YubikeySignError

Spec == Init /\ [][Next]_vars

\* the steps of the page and of the hook operations it calls
PageNext ==
  \/ CreatePasskey \/ CreatePasskeyOptions \/ CreatePasskeyCeremony
  \/ CreatePasskeyAdded
  \/ CreateWallet \/ CreateWalletAuthOptions \/ CreateWalletCeremony
  \/ CreateWalletUpdated
  \/ SignHealthCheck \/ SignHealthCheckOptions \/ SignHealthCheckAccount
  \/ SignHealthCheckCeremony \/ SignHealthCheckSubmitted
  \/ SignTransaction \/ SignTransactionOptions \/ SignTransactionCeremony
  \/ SignTransactionHash \/ SignTransactionSubmitted
  \/ GetSeedPhrase \/ GetSeedPhraseOptions \/ GetSeedPhraseCeremony
  \/ YubikeySetupStart \/ YubikeyPasskeyLoading \/ YubikeySetupConfirm
  \/ YubikeyWalletLoadingTimer \/ YubikeyWalletLoading \/ YubikeySuccess
  \/ YubikeyError
  \/ ExportStart \/ ExportLoading \/ ExportView \/ ExportTest \/ ExportError
  \/ YubikeyStart \/ YubikeySignLoading \/ YubikeySignError

\* what the program does without its user: an awaited request or ceremony
\* settles (the prompt of a ceremony is bounded by PROMPT_TIMEOUT_MS) and
\* the operation runs its next step
Settles ==
  \/ CreatePasskeyOptions \/ CreatePasskeyCeremony \/ CreatePasskeyAdded
  \/ CreateWalletAuthOptions \/ CreateWalletCeremony \/ CreateWalletUpdated
  \/ SignHealthCheckOptions \/ SignHealthCheckAccount
  \/ SignHealthCheckCeremony \/ SignHealthCheckSubmitted
  \/ SignTransactionOptions \/ SignTransactionCeremony
  \/ SignTransactionHash \/ SignTransactionSubmitted
  \/ GetSeedPhraseOptions \/ GetSeedPhraseCeremony

\* the effect of a mounted loading component that calls the operation
MountEffects ==
  \/ CreatePasskey \/ CreateWallet \/ SignHealthCheck \/ SignTransaction
  \/ GetSeedPhrase

\* the effects of a mounted loading component that forward, and the timer
\* of YubikeyWalletLoading
NavEffects ==
  \/ YubikeyPasskeyLoading \/ YubikeyWalletLoadingTimer \/ YubikeyWalletLoading
  \/ ExportLoading \/ YubikeySignLoading

\* the pages with the scheduling of the program: React runs the effects of
\* a mounted component and every awaited promise settles; what the user
\* does (buttons) is under no obligation
FairSpec ==
  /\ InitUi
  /\ [][PageNext]_vars
  /\ WF_vars(Settles)
  /\ WF_vars(MountEffects)
  /\ WF_vars(NavEffects)

(***************************************************************************)
(* Properties of the sanitizer.                                            *)
(***************************************************************************)
Sanitized == san.pc = "done" /\ san.result.st = "return"
SanitizedResults ==
  san.result.sanitizedAuthenticationResponse.clientExtensionResults

\* C1: whenever sanitizeAuthenticationResponse returns, reading prf and
\* largeBlob of the sanitized copy's extension results yields undefined:
\* neither a prf output nor blob bytes remain in it.
C1_SecretsCleared ==
  Sanitized =>
    /\ SanitizedResults.prf.st # "object"
    /\ SanitizedResults.prf.first.st # "value"
    /\ SanitizedResults.largeBlob.st # "object"
    /\ SanitizedResults.largeBlob.blob.st # "value"

\* a response that carried a prf output and blob bytes has been sanitized
C1_Witness ==
  /\ Sanitized
  /\ ~PrfFirstIsNull(san.passed.clientExtensionResults.prf)
  /\ ~BlobIsNull(san.passed.clientExtensionResults.largeBlob)
  /\ san.passed.clientExtensionResults.largeBlob.blob.buf.bytes # <<>>

LargeBlobClaimedButMissing ==
  /\ san.support.st = "object"
  /\ san.support.hasLargeBlob
  /\ BlobIsNull(san.passed.clientExtensionResults.largeBlob)

PrfClaimedButMissing ==
  /\ san.support.st = "object"
  /\ san.support.prfSupported
  /\ PrfFirstIsNull(san.passed.clientExtensionResults.prf)

SanitizeFailsWith(code) ==
  /\ san.result.st = "throw"
  /\ san.result.error.name = "PasskeyError"
  /\ san.result.error.code = code
  /\ san.result.sanitizedAuthenticationResponse = NoAuthenticationResponse
  /\ san.result.largeBlob = MissingText
  /\ san.result.prf = MissingText

\* C5 as stated: hasLargeBlob with no blob output fails with FAILED_READ,
\* prfSupported with no prf output fails with FAILED_WRITE, nothing is
\* returned in either case, and in every other case sanitize returns.
C5_Original ==
  san.pc = "done" =>
    /\ LargeBlobClaimedButMissing => SanitizeFailsWith(FAILED_READ)
    /\ PrfClaimedButMissing => SanitizeFailsWith(FAILED_WRITE)
    /\ (~LargeBlobClaimedButMissing /\ ~PrfClaimedButMissing)
         => san.result.st = "return"

\* C5 as amended: the largeBlob validation runs first, so a missing prf
\* output fails with FAILED_WRITE only when the largeBlob validation passed.
C5_Amended ==
  san.pc = "done" =>
    /\ LargeBlobClaimedButMissing => SanitizeFailsWith(FAILED_READ)
    /\ (PrfClaimedButMissing /\ ~LargeBlobClaimedButMissing)
         => SanitizeFailsWith(FAILED_WRITE)
    /\ (~LargeBlobClaimedButMissing /\ ~PrfClaimedButMissing)
         => san.result.st = "return"

\* both outputs are claimed and both are missing: FAILED_READ is thrown
C5_Witness ==
  /\ san.pc = "done"
  /\ LargeBlobClaimedButMissing
  /\ PrfClaimedButMissing
  /\ SanitizeFailsWith(FAILED_READ)

(***************************************************************************)
(* Properties of the codec.                                                *)
(***************************************************************************)
RECURSIVE LastIndexOf(_, _, _)
\* position of the last occurrence of c in s at or before i; 0 when none
LastIndexOf(s, c, i) ==
  IF i = 0 THEN 0
  ELSE IF s[i] = c THEN i
  ELSE LastIndexOf(s, c, i - 1)

LastDelimiter(s) == LastIndexOf(s, SEED_VERSION_DELIMITER[1], Len(s))
HasVersionTag(s) == LastDelimiter(s) # 0
\* the text after the last delimiter
VersionTagOf(s) == SubSeq(s, LastDelimiter(s) + 1, Len(s))
\* the text before the last delimiter
PayloadOf(s) == SubSeq(s, 1, LastDelimiter(s) - 1)

Decoded == codec.pc = "decoded"
FailsWith(result, message) ==
  /\ result.st = "throw"
  /\ result.error.message = message
InvalidSecret == "Invalid seed phrase"
UnsupportedVersion == "Unsupported seed phrase version"

\* C6: for every valid mnemonic m, encodeSeedPhrase(m, V1) returns a blob
\* and decodeSeedPhrase of that blob returns m with version V1, not by the
\* unversioned path.
C6_RoundTrip ==
  (codec.encodeResult.st # "none" /\ isValidSeedPhrase(codec.seedPhrase)
     /\ codec.blobVersion = PasskeyBlobVersion_V1)
  => /\ codec.encodeResult.st = "return"
     /\ Decoded =>
          codec.decodeResult =
            CodecReturn(codec.seedPhrase, TRUE, PasskeyBlobVersion_V1, FALSE)

\* a blob produced by encodeSeedPhrase has been decoded
C6_Witness ==
  /\ Decoded
  /\ codec.encodeResult.st = "return"
  /\ codec.decodeResult.st = "return"
  /\ codec.decodeResult.text = codec.seedPhrase

\* C7: an input that is not a valid mnemonic and whose version tag (the
\* text after the last delimiter) is absent or not a known version makes
\* decodeSeedPhrase fail with "Unsupported seed phrase version".
C7_FailClosed ==
  (/\ Decoded
   /\ ~isValidSeedPhrase(codec.encodedSeedPhrase)
   /\ \/ ~HasVersionTag(codec.encodedSeedPhrase)
      \/ VersionTagOf(codec.encodedSeedPhrase) # PasskeyBlobVersion_V1)
  => FailsWith(codec.decodeResult, UnsupportedVersion)

\* C8: a seed phrase that decodeSeedPhrase returns for a versioned blob is
\* a valid mnemonic.
C8_DecodedIsValid ==
  (Decoded /\ codec.decodeResult.st = "return" /\ codec.decodeResult.hasVersion)
  => isValidSeedPhrase(codec.decodeResult.text)

\* C9: decodeSeedPhrase splits at the last delimiter only: an input with
\* more than one delimiter whose last segment is not a known version is
\* rejected, and what is returned accounts for the whole input (payload,
\* delimiter, version tag), no segment being dropped.
C9_SplitAtLast ==
  (Decoded /\ ~isValidSeedPhrase(codec.encodedSeedPhrase))
  => /\ (/\ Len(Split(codec.encodedSeedPhrase, SEED_VERSION_DELIMITER)) > 2
         /\ VersionTagOf(codec.encodedSeedPhrase) # PasskeyBlobVersion_V1)
        => codec.decodeResult.st = "throw"
     /\ codec.decodeResult.st = "return"
        => /\ codec.decodeResult.version = VersionTagOf(codec.encodedSeedPhrase)
           /\ codec.decodeResult.text =
                base64ToUtf8(PayloadOf(codec.encodedSeedPhrase))

Encoded == codec.encodeResult.st # "none"

\* the payload of every write ceremony that exportXpub starts is the blob
\* of a valid mnemonic
WritesValidSeed ==
  (ceremony.kind = "write" /\ lib.fn # "writeLargeBlob") =>
    \E m \in Mnemonics :
      /\ isValidSeedPhrase(m)
      /\ ceremony.write = SomeBuffer(utf8ToBase64(m) \o SEED_VERSION_DELIMITER
                                       \o PasskeyBlobVersion_V1)

EncodeReturnsExactBlob ==
  codec.encodeResult.st = "return" =>
    /\ isValidSeedPhrase(codec.seedPhrase)
    /\ codec.blobVersion = PasskeyBlobVersion_V1
    /\ codec.encodeResult.text =
         utf8ToBase64(codec.seedPhrase) \o <<46>> \o codec.blobVersion

\* C10 as stated: encodeSeedPhrase returns only for a valid seed phrase and
\* an implemented version, the blob being base64(seedPhrase).version; an
\* invalid seed phrase fails with "Invalid seed phrase", an unimplemented
\* version with "Unsupported seed phrase version"; exportXpub writes only
\* blobs of valid seed phrases.
C10_Original ==
  /\ Encoded =>
       /\ EncodeReturnsExactBlob
       /\ ~isValidSeedPhrase(codec.seedPhrase)
            => FailsWith(codec.encodeResult, InvalidSecret)
       /\ codec.blobVersion # PasskeyBlobVersion_V1
            => FailsWith(codec.encodeResult, UnsupportedVersion)
  /\ WritesValidSeed

\* C10 as amended: the validation runs first, so an unimplemented version
\* fails with "Unsupported seed phrase version" when the seed phrase is
\* valid; an invalid seed phrase fails with "Invalid seed phrase" whatever
\* the version.
C10_Amended ==
  /\ Encoded =>
       /\ EncodeReturnsExactBlob
       /\ ~isValidSeedPhrase(codec.seedPhrase)
            => FailsWith(codec.encodeResult, InvalidSecret)
       /\ (isValidSeedPhrase(codec.seedPhrase)
           /\ codec.blobVersion # PasskeyBlobVersion_V1)
            => FailsWith(codec.encodeResult, UnsupportedVersion)
  /\ WritesValidSeed

\* an invalid seed phrase was given with an unimplemented version
C10_Witness ==
  /\ Encoded
  /\ ~isValidSeedPhrase(codec.seedPhrase)
  /\ codec.blobVersion = UnknownVersion
  /\ FailsWith(codec.encodeResult, InvalidSecret)

(***************************************************************************)
(* Properties of the requests sent to the server.                          *)
(***************************************************************************)
\* C2: the authentication result in the device update of createWallet is a
\* sanitized one: sanitizing it changes nothing, and it carries neither a
\* largeBlob nor a prf extension sub-result.
C2_OnlySanitizedSent ==
  request.path = "PUT devices/{deviceId}" =>
    /\ request.authenticationResponse =
         sanitizeAuthenticationResponse(request.authenticationResponse, NoSupport)
           .sanitizedAuthenticationResponse
    /\ request.authenticationResponse.clientExtensionResults.largeBlob.st # "object"
    /\ request.authenticationResponse.clientExtensionResults.prf.st # "object"

\* the texts that are secret: seed phrases, their blobs, and what the
\* authenticator holds
SecretTexts ==
  Mnemonics
  \cup { utf8ToBase64(m) \o SEED_VERSION_DELIMITER \o BLOB_VERSION_CURRENT :
           m \in Mnemonics }
  \cup { arrayBufferToPlaintext(b.buf) : b \in StoredBlobs \ {MissingBuffer} }

PrivateKinds == {"seedPhrase", "blob", "privateKey", "xprv"}

\* the request carries a seed phrase, a blob or private key material
CarriesSecret(r) ==
  \/ r.xpub.kind \in PrivateKinds
  \/ r.externalSignatures.kind \in PrivateKinds
  \/ r.blobVersion \in SecretTexts \ {<<>>}
  \/ r.authenticationResponse.clientExtensionResults.largeBlob.blob.st = "value"
  \/ r.authenticationResponse.clientExtensionResults.prf.first.st = "value"

\* C3: no request sent to the server by createPasskey, createWallet,
\* signHealthCheck, signTransaction or getSeedPhrase contains the seed
\* phrase, the encoded blob or a derived private key.
C3_NoSecretSent == ~CarriesSecret(request)

\* values derived from a seed phrase are on their way to the server: the
\* xpub of a written seed, or a signature made with a seed read back
C3_Witness ==
  \/ /\ request.path = "PUT devices/{deviceId}"
     /\ request.xpub.seed \in Mnemonics
     /\ largeBlob.st = "value"
  \/ /\ request.path = "PUT signatures/{signatureId}"
     /\ request.externalSignatures.seed \in Mnemonics

(***************************************************************************)
(* Properties of writeLargeBlob and readLargeBlob.                         *)
(***************************************************************************)
LibDone(fn) == lib.pc = "done" /\ lib.fn = fn
\* the ceremony of the call resolved with a credential
Resolved == lib.settled = "resolve" /\ lib.assertion.st = "object"
AssertedLargeBlob == lib.assertion.clientExtensionResults.largeBlob
ReportsWritten ==
  AssertedLargeBlob.st = "object" /\ AssertedLargeBlob.written = "true"
LibFailsWith(code) ==
  /\ lib.result = LibThrow(lib.result.error)
  /\ lib.result.error.name = "PasskeyError"
  /\ lib.result.error.code = code

\* C11: writeLargeBlob returns an authentication result only when the
\* largeBlob output of the ceremony has written = true; when the ceremony
\* resolved with anything else (flag false, flag missing, no largeBlob
\* output) it throws the PasskeyError FAILED_WRITE and returns nothing.
C11_WrittenOrFails ==
  LibDone("writeLargeBlob") =>
    /\ lib.result.st = "return" => (Resolved /\ ReportsWritten)
    /\ (Resolved /\ ~ReportsWritten) => LibFailsWith(FAILED_WRITE)

\* the ceremony resolved with a largeBlob output that has no written flag
C11_Witness ==
  /\ LibDone("writeLargeBlob")
  /\ Resolved
  /\ AssertedLargeBlob.st = "object"
  /\ AssertedLargeBlob.written = "missing"
  /\ LibFailsWith(FAILED_WRITE)

HasReadableBlob ==
  /\ AssertedLargeBlob.st = "object"
  /\ AssertedLargeBlob.blob.st = "value"
  /\ AssertedLargeBlob.blob.buf.bytes # <<>>

\* C12: readLargeBlob returns a string only when the largeBlob output has
\* a blob that decodes to a non-empty string, and returns that string; when
\* the ceremony resolved with anything else (no largeBlob entry, no blob,
\* an empty blob) it throws the PasskeyError FAILED_READ.  It never returns
\* the empty string.
C12_NonEmptyOrFails ==
  LibDone("readLargeBlob") =>
    /\ lib.result.st = "return" =>
         /\ Resolved /\ HasReadableBlob
         /\ lib.result.text = arrayBufferToPlaintext(AssertedLargeBlob.blob.buf)
         /\ lib.result.text # <<>>
    /\ (Resolved /\ ~HasReadableBlob) => LibFailsWith(FAILED_READ)

\* the authenticator holds a blob of no bytes and the read fails
C12_Witness ==
  /\ LibDone("readLargeBlob")
  /\ Resolved
  /\ AssertedLargeBlob.blob.st = "value"
  /\ AssertedLargeBlob.blob.buf.bytes = <<>>
  /\ LibFailsWith(FAILED_READ)

(***************************************************************************)
(* Properties of exportXpub, getStoredSeed and the signing functions.      *)
(***************************************************************************)
\* what decodeSeedPhrase makes of the blob the ceremony resolved with
AssertedBlobDecoded ==
  decodeSeedPhrase(arrayBufferToPlaintext(AssertedLargeBlob.blob.buf))

\* C13: on an authenticator that stores what it reports as written, once
\* exportXpub has returned (and no other write followed), the authenticator
\* holds the blob of the seed phrase exportXpub generated, whatever reads
\* were made since; every getStoredSeed that reads it returns exactly that
\* seed phrase, the decoded version being the blobVersion exportXpub
\* returned and the xpub derived from the read seed the exported one; a
\* later exportXpub that returns replaces the blob and reads return the
\* newer seed phrase.
C13_ReadsReturnExported ==
  lib.exported.st = "some" =>
    /\ largeBlob =
         SomeBuffer(utf8ToBase64(lib.exported.seedPhrase)
                      \o SEED_VERSION_DELIMITER \o lib.exported.blobVersion)
    /\ (LibDone("getStoredSeed") /\ Resolved /\ HasReadableBlob) =>
         /\ lib.result.st = "return"
         /\ lib.result.text = lib.exported.seedPhrase
         /\ AssertedBlobDecoded.hasVersion
         /\ AssertedBlobDecoded.version = lib.exported.blobVersion
         /\ exportedXpub(lib.result.text, lib.exported.hardenedKeyPathPurpose)
              = lib.exported.xpub
    /\ (LibDone("getStoredSeed") /\ lib.result.st = "return") =>
         lib.result.text = lib.exported.seedPhrase

\* a second exportXpub has replaced the blob and getStoredSeed returned
C13_Witness ==
  /\ LibDone("getStoredSeed")
  /\ lib.exported.st = "some"
  /\ lib.exported.replaced
  /\ lib.result.st = "return"
  /\ lib.result.text = lib.exported.seedPhrase

ReadingFunctions == {"getSignedMessage", "signTransaction", "getStoredSeed"}

\* C14: exportXpub returns only after the write ceremony reported the blob
\* written; getSignedMessage, signTransaction and getStoredSeed return only
\* after a read ceremony that delivered a blob which decodeSeedPhrase
\* accepted, and the seed phrase they return, hold or sign with is the
\* decoded one: nothing is derived before the decode.
C14_CallOrder ==
  /\ (LibDone("exportXpub") /\ lib.result.st = "return")
       => (Resolved /\ ReportsWritten)
  /\ (lib.pc = "done" /\ lib.fn \in ReadingFunctions
      /\ lib.result.st = "return") =>
       /\ Resolved /\ HasReadableBlob
       /\ AssertedBlobDecoded.st = "return"
       /\ lib.fn = "getStoredSeed"
            => lib.result.text = AssertedBlobDecoded.text
       /\ lib.fn # "getStoredSeed"
            => lib.result.value.seed = AssertedBlobDecoded.text
  /\ lib.pc = "getTransactionHash" =>
       /\ Resolved /\ HasReadableBlob
       /\ AssertedBlobDecoded.st = "return"
       /\ lib.seedPhrase = AssertedBlobDecoded.text

\* a signature was returned after the blob was read and decoded
C14_Witness ==
  /\ lib.pc = "done"
  /\ lib.fn \in {"getSignedMessage", "signTransaction"}
  /\ lib.result.st = "return"
  /\ AssertedBlobDecoded.hasVersion
  /\ lib.result.value.seed \in Mnemonics

\* C15: a call of writeLargeBlob, readLargeBlob, exportXpub,
\* getSignedMessage, signTransaction or getStoredSeed calls
\* navigator.credentials.get at most once, also when the ceremony is
\* rejected or fails; and, in the hook operations as well, the step in
\* which a ceremony settles never starts another ceremony.
C15_SingleShot ==
  [][/\ lib'.prompts <= 1
     /\ ceremony.kind # "none"
          => (ceremony'.kind = "none" \/ ceremony' = ceremony)]_vars

\* a call has ended with its one ceremony rejected
C15_Witness ==
  /\ lib.pc = "done"
  /\ lib.settled = "reject"
  /\ lib.prompts = 1
  /\ lib.result.st = "throw"
  /\ ceremony = NoCeremony

(***************************************************************************)
(* Properties of the pages.                                                *)
(***************************************************************************)
\* C16: in every run of the setup, export and sign flows, with their error
\* and try again paths, at most one authenticator ceremony is in flight: a
\* ceremony belongs to the run of one hook operation, and no operation is
\* called while the run of another has not finished.
C16_OneCeremonyInFlight ==
  ui.page # "unused" =>
    /\ ~ui.overlapped
    /\ ceremony.kind # "none" => op.pc # "idle"

\* the write ceremony of createWallet is in flight after a try again
C16_Witness ==
  /\ ui.page = "setup"
  /\ ui.triedAgain
  /\ ui.step = "YUBIKEY_INTERACT_WALLET"
  /\ ceremony.kind = "write"
  /\ hook.credentialId # "null"

(***************************************************************************)
(* Properties of the signing dispatch and of key derivation.               *)
(***************************************************************************)
SupportedCoins == BTC_COIN_TYPES \cup ETH_COIN_TYPES
UnsupportedCoin == "UNSUPPORTED_COIN"
SigningEntryPoints == {"signTransaction", "getSignedMessage"}

\* C17: signTransaction and getSignedMessage, called with a coin that is
\* none of BTC, TBTC, ETH, TETH, ETHC, TETHC, fail with the typed error
\* UnsupportedCoin and return no signature.
C17_UnsupportedCoinFails ==
  (/\ lib.pc = "done"
   /\ lib.fn \in SigningEntryPoints
   /\ toUpperCase(lib.params.coin) \notin SupportedCoins)
    => /\ lib.result = LibThrow(lib.result.error)
       /\ lib.result.error.name = "PasskeyError"
       /\ lib.result.error.code = UnsupportedCoin

\* C18: exportXpub returns the xpub of the master node exactly when no
\* purpose is supplied, and for every supplied purpose p, 0 included, the
\* xpub of m/p'; what it returns is always a neutered key.
C18_MasterIffNoPurpose ==
  (LibDone("exportXpub") /\ lib.result.st = "return") =>
    LET p == lib.params.hardenedKeyPathPurpose
    IN /\ lib.result.value.kind = "xpub"
       /\ lib.result.value.path =
            IF p = -1 THEN MasterPath
            ELSE <<109>> \o SLASH \o Digits(p) \o APOSTROPHE

\* m/P[']/C/A/0[/I]: the apostrophe only on the purpose and only when it is
\* hardened, the change segment 0, the address index I last when there is
\* one (I = -1: there is none)
SigningPathRule(P, hardened, C, A, I) ==
  <<109>> \o SLASH \o Digits(P) \o (IF hardened THEN APOSTROPHE ELSE <<>>)
    \o SLASH \o Digits(C) \o SLASH \o Digits(A) \o SLASH \o Digits(0)
    \o (IF I = -1 THEN <<>> ELSE SLASH \o Digits(I))

\* the signatures made with a key derived at a path built from the key
\* path arguments
PathSignatures == {"ethSignature", "btcSignature", "safeSignature"}

\* C19: every signature of a message or of a Safe transaction hash is made
\* with the key at m/P[']/C/A/0[/I] for the key path arguments of the call:
\* the purpose hardened iff keyPathPurposeIsHardened is true, change 0, and
\* the address index last iff there is one; message signing, of Ethereum
\* and of Bitcoin, uses the address index 0.
C19_SigningPath ==
  (/\ lib.pc = "done"
   /\ lib.result.st = "return"
   /\ lib.result.value.kind \in PathSignatures)
    => LET account == lib.params.walletAccount
       IN lib.result.value.path =
            SigningPathRule(account.keyPathPurpose,
                            account.keyPathPurposeIsHardened,
                            account.keyPathCoinType, account.keyPathAccount,
                            IF lib.fn = "getSignedMessage" THEN 0
                            ELSE lib.params.keyPathAddress)

\* a Safe signature at an unhardened purpose with the address index 5
C19_Witness ==
  /\ LibDone("signTransaction")
  /\ lib.result.st = "return"
  /\ lib.result.value.kind = "safeSignature"
  /\ ~lib.params.walletAccount.keyPathPurposeIsHardened
  /\ lib.params.keyPathAddress = 5
  /\ lib.result.value.path = <<109, 47, 52, 52, 47, 54, 48, 47, 48, 47, 48, 47, 53>>

\* the call signs with a key derived from its key path arguments
DerivesFromKeyPath ==
  \/ lib.fn = "getSignedMessage"
  \/ lib.fn = "signTransaction" /\ toUpperCase(lib.params.coin) \in ETH_COIN_TYPES

\* a component the signing flow requires was not passed: purpose, coin
\* type or account, or the address index of Gnosis-Safe signing
MissingPathComponent ==
  \/ lib.params.walletAccount.keyPathPurpose = -1
  \/ lib.params.walletAccount.keyPathCoinType = -1
  \/ lib.params.walletAccount.keyPathAccount = -1
  \/ lib.fn = "signTransaction" /\ lib.params.keyPathAddress = -1

InvalidPath == "INVALID_PATH"

\* C20: a signing call with a missing path component returns no signature,
\* and when it gets as far as the derivation it fails there with the typed
\* error InvalidPath: it derives from no shortened path and from no
\* defaulted component.
C20_MissingComponentFails ==
  (lib.pc = "done" /\ DerivesFromKeyPath /\ MissingPathComponent)
    => /\ lib.result = LibThrow(lib.result.error)
       /\ \/ lib.result.error = PasskeyError(lib.result.error.message,
                                             InvalidPath)
          \/ lib.result.error.name # "TypeError"

(***************************************************************************)
(* Properties of the errors.                                               *)
(***************************************************************************)
\* an error with a kind: a PasskeyError with a code of PasskeyErrorCodes
Typed(error) == error.name = "PasskeyError" /\ error.code # "none"

\* C21: every failure raised by the codec, by the ceremony adapter (not the
\* rejection of the credential API itself, which it lets through), by the
\* sanitizer and by the signing dispatch is a typed error with a kind.
C21_FailuresTyped ==
  /\ codec.encodeResult.st = "throw" => Typed(codec.encodeResult.error)
  /\ codec.decodeResult.st = "throw" => Typed(codec.decodeResult.error)
  /\ san.result.st = "throw" => Typed(san.result.error)
  /\ (lib.pc = "done" /\ lib.result.st = "throw" /\ lib.settled # "reject")
       => Typed(lib.result.error)

(* Properties of the values the sanitizer keeps for the client. *)
\* the bytes of the blob output of the response, when the output is there
InputBlobPresent(r) ==
  /\ r.clientExtensionResults.largeBlob.st = "object"
  /\ r.clientExtensionResults.largeBlob.blob.st = "value"
\* the bytes of the first prf output of the response, when it is there
InputPrfPresent(r) ==
  /\ r.clientExtensionResults.prf.st = "object"
  /\ r.clientExtensionResults.prf.results = "object"
  /\ r.clientExtensionResults.prf.first.st = "value"

\* C22: when the sanitizer succeeds, the local largeBlob is the text the bytes
\* of the input's blob output spell and the local prf is the base64 text of the
\* input's prf output; each is there exactly when that output is there, and
\* the sanitized copy holds neither output.
C22_LocalValues ==
  san.result.st = "return" =>
    LET input == san.passed
        out == san.result
        copy == san.result.sanitizedAuthenticationResponse.clientExtensionResults
    IN /\ (out.largeBlob.st = "value") <=> InputBlobPresent(input)
       /\ (out.prf.st = "value") <=> InputPrfPresent(input)
       /\ InputBlobPresent(input) =>
            out.largeBlob.text = input.clientExtensionResults.largeBlob.blob.buf.bytes
       /\ InputPrfPresent(input) =>
            /\ out.prf.text = utf8ToBase64(input.clientExtensionResults.prf.first.buf.bytes)
            /\ base64ToUtf8(out.prf.text) = input.clientExtensionResults.prf.first.buf.bytes
       /\ copy.largeBlob.st # "object"
       /\ copy.prf.st # "object"

\* a successful call on a response that carries both outputs
C22_Witness ==
  /\ san.result.st = "return"
  /\ InputBlobPresent(san.passed)
  /\ InputPrfPresent(san.passed)
  /\ san.passed.clientExtensionResults.largeBlob.blob.buf.bytes # <<>>
  /\ san.result.prf.text # san.passed.clientExtensionResults.prf.first.buf.bytes

(* Properties of the requests of the ceremonies. *)
\* the credentials the candidates name, whatever the encoding of each id
NamedCredentials(candidates) ==
  { b \in {CredentialBytes, OtherCredentialBytes} :
      \E i \in 1..Len(candidates.ids) :
        candidates.ids[i] \in {IdBase64(b), IdBase64Url(b)} }

\* C23: a write request allows exactly one credential, the one the given id
\* names in either encoding, carries the bytes of the blob as the write
\* payload and has the 60 s timeout; a read request allows exactly the
\* credentials the candidates of the options name, has the read flag set and
\* the same timeout.
C23_Requests ==
  /\ ceremony.kind = "write" =>
       /\ ceremony.allowCredentials = AllowCredentials({CredentialBytes})
       /\ ceremony.write.st = "value"
       /\ ~ceremony.read
       /\ ceremony.timeout = 60000
       /\ lib.pc = "ceremony" =>
            /\ lib.params.credentialId \in LibCredentialIds
            /\ ceremony.write.buf.bytes = lib.params.blob
       /\ op.pc = "createWallet.ceremony" =>
            ceremony.write.buf.bytes =
              utf8ToBase64(op.seedPhrase) \o SEED_VERSION_DELIMITER
                \o BLOB_VERSION_CURRENT
  /\ ceremony.kind = "read" =>
       /\ ceremony.read
       /\ ceremony.write.st = "missing"
       /\ ceremony.timeout = 60000
       /\ lib.pc = "ceremony" =>
            /\ ceremony.allowCredentials.st = lib.params.options.st
            /\ ceremony.allowCredentials.ids = NamedCredentials(lib.params.options)
       /\ op.pc \in {"signHealthCheck.ceremony", "signTransaction.ceremony",
                     "getSeedPhrase.ceremony"} =>
            ceremony.allowCredentials = AllowCredentials({CredentialBytes})

\* a write request made for an id in the URL alphabet, and a read request
\* made for two candidates in different encodings
C23_Witness ==
  /\ ceremony.kind = "write" /\ lib.pc = "ceremony"
  /\ lib.params.credentialId = IdBase64Url(CredentialBytes)
  /\ lib.params.credentialId # IdBase64(CredentialBytes)
  /\ lib.params.blob # <<>>

(* Properties of the lifetime of key material. *)
\* C24: once an operation of the hook has completed, neither its locals nor
\* the hook state hold a seed phrase: key material does not outlive the call
\* chain that obtained it.
C24_NoKeyMaterialRetained ==
  op.pc = "idle" =>
    /\ op.seedPhrase = <<>>
    /\ ~hook.phraseSet
    /\ hook.phrase = <<>>

(* Properties of the normalization of credential ids. *)
\* the ids a call in flight was given: its credentialId argument and the
\* candidates of its options
GivenIds ==
  (IF lib.params.credentialId # <<>> THEN {lib.params.credentialId} ELSE {})
  \cup { lib.params.options.ids[i] : i \in 1..Len(lib.params.options.ids) }

\* C25: normalizeCredentialId is idempotent, and canonical: the base64 and the
\* base64url text of the same bytes normalize to the same text, the base64 one.
C25_Normalization ==
  \A x \in GivenIds :
    /\ normalizeCredentialId(normalizeCredentialId(x)) = normalizeCredentialId(x)
    /\ \A b \in {CredentialBytes, OtherCredentialBytes} :
         x \in {IdBase64(b), IdBase64Url(b)} =>
           /\ normalizeCredentialId(x) = normalizeCredentialId(IdBase64(b))
           /\ normalizeCredentialId(x) = normalizeCredentialId(IdBase64Url(b))
           /\ normalizeCredentialId(x) = IdBase64(b)

\* a call was given the same credential in both encodings, and the two texts
\* differ
C25_Witness ==
  /\ lib.pc = "ceremony"
  /\ IdBase64(CredentialBytes) \in GivenIds
  /\ IdBase64Url(CredentialBytes) \in GivenIds
  /\ IdBase64(CredentialBytes) # IdBase64Url(CredentialBytes)
  /\ IsBase64(IdBase64(CredentialBytes))
  /\ ~IsBase64(IdBase64Url(CredentialBytes))

(* Properties of the unversioned seed phrase. *)
\* the text has no version: it has no delimiter
Unversioned(text) == \A i \in 1..Len(text) : <<text[i]>> # SEED_VERSION_DELIMITER

\* C26: decodeSeedPhrase given a valid mnemonic returns it as it is, with no
\* version, and warns; it takes that path only for an unversioned valid
\* mnemonic, never for a blob encodeSeedPhrase returned.
C26_LegacyPath ==
  codec.pc = "decoded" =>
    LET input == codec.encodedSeedPhrase
        out == codec.decodeResult
    IN /\ input \in Mnemonics =>
            /\ out.st = "return"
            /\ out.text = input
            /\ ~out.hasVersion
            /\ out.warned
       /\ out.warned => (input \in Mnemonics /\ Unversioned(input))
       /\ (codec.encodeResult.st = "return" /\ input = codec.encodeResult.text)
            => (~out.warned /\ ~Unversioned(input))

\* a valid mnemonic has been decoded
C26_Witness ==
  /\ codec.pc = "decoded"
  /\ codec.encodedSeedPhrase \in Mnemonics
  /\ codec.decodeResult.warned

(* Properties of the loading steps. *)
\* the loading step of the sign page, after its first effect has called the
\* operation
SignLoadingStarted ==
  /\ ui.page = "sign"
  /\ ui.step \in {"YUBIKEY_SIGN_LOADING", "YUBIKEY_HEALTH_LOADING"}
  /\ ui.passkeyPrompted

\* C27: whenever the sign loading step has started signHealthCheck or
\* signTransaction, the page eventually shows another step, whatever the
\* outcome of the precondition checks, the requests and the ceremony.
C27_SignLoadingLeaves ==
  SignLoadingStarted ~>
    ~(ui.step \in {"YUBIKEY_SIGN_LOADING", "YUBIKEY_HEALTH_LOADING"})

\* the loading step of the export, after its first effect has called
\* getSeedPhrase
ExportLoadingStarted ==
  /\ ui.page = "setup"
  /\ ui.step = "YUBIKEY_EXPORT_LOAD"
  /\ ui.passkeyPrompted

\* C28: whenever the export loading step has started getSeedPhrase, the page
\* eventually shows YUBIKEY_EXPORT_VIEW or YUBIKEY_EXPORT_ERROR, whatever the
\* sign-options request (error, data, or neither) and the read ceremony give.
C28_ExportLoadingLeaves ==
  ExportLoadingStarted ~>
    (ui.step \in {"YUBIKEY_EXPORT_VIEW", "YUBIKEY_EXPORT_ERROR"})

(* Properties of the device update. *)
\* C29: whenever the server holds an xpub for the device, the large blob of
\* the credential holds the encoding of the seed phrase that xpub was derived
\* from, through any sequence of createWallet runs.
C29_XpubMatchesBlob ==
  server # NoValue =>
    /\ largeBlob.st = "value"
    /\ largeBlob.buf.bytes =
         utf8ToBase64(server.seed) \o SEED_VERSION_DELIMITER
           \o BLOB_VERSION_CURRENT

(* Properties of the order of the steps of an operation. *)
\* the steps of the four operations, in the order the claim gives them
StepsOf ==
  [createPasskey |-> <<"createPasskey.getCreateOptions",
                       "createPasskey.ceremony",
                       "createPasskey.addPasskey">>,
   createWallet |-> <<"createWallet.getAuthOptions",
                      "createWallet.ceremony",
                      "createWallet.addWallet">>,
   signHealthCheck |-> <<"signHealthCheck.getSignOptions",
                         "signHealthCheck.getWalletAccount",
                         "signHealthCheck.ceremony",
                         "signHealthCheck.addSignedMessage">>,
   signTransaction |-> <<"signTransaction.getSignOptions",
                         "signTransaction.ceremony",
                         "signTransaction.getTransactionHash",
                         "signTransaction.addSignedMessage">>]

\* the error state and the success state of an operation in the hook state h
ErrorStateOf(fn, h) ==
  CASE fn = "createPasskey" -> h.passkeyError
    [] fn = "createWallet" -> h.walletError
    [] OTHER -> h.signError
SuccessStateSet(fn, h) ==
  CASE fn = "createPasskey" -> h.credentialId # "null"
    [] fn = "createWallet" -> h.xPub # NoValue
    [] OTHER -> h.signatureResult # "null"

\* the step from position i of fn: to a later position of the same operation
\* (the signing of a Bitcoin transaction has no transaction hash to fetch), or
\* the operation ends; when it ends before its last step succeeded, its error
\* state is set, and its success state is left as it was
StepInOrder(fn, i) ==
  LET steps == StepsOf[fn]
  IN \/ /\ i < Len(steps)
        /\ op'.pc = steps[i + 1]
        /\ hook'.credentialId = hook.credentialId
        /\ hook'.xPub = hook.xPub
        /\ hook'.signatureResult = hook.signatureResult
     \/ /\ fn = "signTransaction" /\ i = 2
        /\ op'.pc = steps[4]
        /\ hook'.signatureResult = hook.signatureResult
     \/ /\ op'.pc = "idle"
        /\ \/ /\ ErrorStateOf(fn, hook') # NoError
              /\ hook'.credentialId = hook.credentialId
              /\ hook'.xPub = hook.xPub
              /\ hook'.signatureResult = hook.signatureResult
           \/ /\ i = Len(steps)
              /\ ErrorStateOf(fn, hook') = NoError
              /\ SuccessStateSet(fn, hook')

\* C30: createPasskey, createWallet, signHealthCheck and signTransaction run
\* their steps in order and stop at the first step that fails: no later step
\* runs, the error state of the operation is set, and credentialId, xPub and
\* signatureResult are assigned only when the last step has succeeded.
C30_StepsInOrder ==
  [][\A fn \in DOMAIN StepsOf :
       /\ \A i \in 1..Len(StepsOf[fn]) :
            (op.pc = StepsOf[fn][i] /\ op' # op) => StepInOrder(fn, i)
       /\ (op.pc = "idle" /\ op'.pc \in {StepsOf[fn][i] : i \in 1..Len(StepsOf[fn])})
            => op'.pc = StepsOf[fn][1]
       /\ (op.pc = "idle" /\ op'.pc = "idle") =>
            /\ hook'.credentialId = hook.credentialId
            /\ hook'.xPub = hook.xPub
            /\ hook'.signatureResult = hook.signatureResult]_vars

\* createWallet has stopped at its last step: the blob was written, the
\* device update failed, the error is set and xPub is not
C30_Witness ==
  /\ op.pc = "idle"
  /\ hook.walletError # NoError
  /\ hook.walletError.message =
       "Seed phrase written to passkey, but API call failed to update device"
  /\ hook.xPub = NoValue
  /\ hook.credentialId # "null"

(* Properties of the precondition checks of the operations. *)
\* what each operation needs before it starts
HasInputs(fn) ==
  CASE fn = "createPasskey" -> props.jwt # "null"
    [] fn = "createWallet" ->
         /\ props.jwt # "null"
         /\ hook.credentialId # "null"
         /\ props.device.st = "object"
    [] fn = "signTransaction" ->
         /\ props.jwt # "null"
         /\ props.transactionInputs.st = "object"
         /\ props.transactionInputs.walletAccount # NoWalletAccount
         /\ props.transactionInputs.signature.st = "object"
         /\ props.transactionInputs.toSign # "null"
    [] OTHER ->
         /\ props.jwt # "null"
         /\ (hook.credentialId # "null" \/ props.deviceId # "null")

\* the hook state after an error of the kind `code` was put in the error
\* state of the operation and nothing else was touched
OnlyErrorSet(fn, code) ==
  LET error == CASE fn = "createPasskey" -> hook'.passkeyError
                 [] fn = "createWallet" -> hook'.walletError
                 [] fn = "signTransaction" -> hook'.signError
                 [] OTHER -> hook'.phraseError
  IN /\ error.name = "PasskeyError"
     /\ error.code = code
     /\ hook' = CASE fn = "createPasskey" -> [hook EXCEPT !.passkeyError = error]
                  [] fn = "createWallet" -> [hook EXCEPT !.walletError = error]
                  [] fn = "signTransaction" -> [hook EXCEPT !.signError = error]
                  [] OTHER -> [hook EXCEPT !.phraseError = error]
     /\ op'.pc = "idle"
     /\ request' = NoRequest
     /\ ceremony' = NoCeremony
     /\ largeBlob' = largeBlob

\* C31: an operation called without what it needs sets its own error state
\* (UNABLE_TO_CONNECT for createPasskey, INCORRECT_STATE for createWallet and
\* signTransaction, UNAUTHORIZED for getSeedPhrase), sends no request, starts
\* no ceremony and leaves the loading flags and the success states alone.
C31_PreconditionFails ==
  [][/\ (CreatePasskey /\ op.pc = "idle" /\ ~HasInputs("createPasskey"))
          => OnlyErrorSet("createPasskey", UNABLE_TO_CONNECT)
     /\ (CreateWallet /\ op.pc = "idle" /\ ~HasInputs("createWallet"))
          => OnlyErrorSet("createWallet", INCORRECT_STATE)
     /\ (SignTransaction /\ op.pc = "idle" /\ ~HasInputs("signTransaction"))
          => OnlyErrorSet("signTransaction", INCORRECT_STATE)
     /\ (GetSeedPhrase /\ op.pc = "idle" /\ ~HasInputs("getSeedPhrase"))
          => OnlyErrorSet("getSeedPhrase", UNAUTHORIZED)]_vars

\* createWallet was called before a credential was registered
C31_Witness ==
  /\ op.pc = "idle"
  /\ hook.walletError.code = INCORRECT_STATE
  /\ hook.walletError.message =
       "Attempted to create wallet before JWT, credentialId, and device are available"
  /\ hook.credentialId = "null"
  /\ props.jwt # "null"
  /\ props.device.st = "object"
  /\ ~hook.walletLoading

(* Properties of the checks signTransaction makes before the ceremony. *)
FailsEarly(params) ==
  \/ toUpperCase(params.coin) \notin BTC_COIN_TYPES \cup ETH_COIN_TYPES
  \/ /\ toUpperCase(params.coin) \in BTC_COIN_TYPES
     /\ params.psbt \in {"missing", "invalid"}
  \/ /\ toUpperCase(params.coin) \in ETH_COIN_TYPES
     /\ params.safeAddress = "null"

\* C32: a signTransaction call with an unsupported coin, a Bitcoin-family
\* call without a PSBT or with an unparsable one, or an Ethereum-family call
\* without a Safe address has thrown without starting an authenticator
\* ceremony: the user was never prompted.
C32_FailsBeforeCeremony ==
  /\ (lib.fn = "signTransaction" /\ FailsEarly(lib.params))
       => /\ lib.pc = "done"
          /\ lib.result.st = "throw"
          /\ lib.prompts = 0
          /\ ceremony = NoCeremony
  /\ op.pc = "signTransaction.ceremony"
       => ~FailsEarly(formatSignTxParams(props.transactionInputs))

C32_Witness ==
  /\ lib.fn = "signTransaction"
  /\ toUpperCase(lib.params.coin) \in BTC_COIN_TYPES
  /\ lib.params.psbt = "invalid"
  /\ lib.result.st = "throw"
  /\ lib.prompts = 0

(* Properties of the object the caller hands to the sanitizer. *)
\* C33: after sanitizeAuthenticationResponse has returned or thrown, the
\* object the caller passed in is as it was passed: it still carries its prf
\* and largeBlob extension outputs, and only the returned copy has them
\* cleared.
C33_ArgumentUnmodified ==
  san.pc = "done"
    => /\ san.authenticationResponse.clientExtensionResults.prf.first
            = san.passed.clientExtensionResults.prf.first
       /\ san.authenticationResponse.clientExtensionResults.largeBlob.blob
            = san.passed.clientExtensionResults.largeBlob.blob
       /\ san.result.st = "return"
            => san.result.sanitizedAuthenticationResponse.clientExtensionResults
                 = ClearExtensionResults(san.passed.clientExtensionResults)

(* Properties of the loading flags once an operation is over. *)
\* C34: deviceUpdateLoading is true only while the device-update request
\* of createWallet is in flight; once createWallet has finished, with or
\* without success, deviceUpdateLoading and walletLoading are false.
C34_DeviceUpdateLoading ==
  /\ hook.deviceUpdateLoading => op.pc = "createWallet.addWallet"
  /\ op.pc = "idle" => ~hook.deviceUpdateLoading /\ ~hook.walletLoading

\* C35: phraseLoading is true only while a getSeedPhrase call is in
\* progress; once getSeedPhrase has finished, with or without success,
\* phraseLoading is false.
C35_PhraseLoading ==
  /\ hook.phraseLoading
       => op.pc \in {"getSeedPhrase.getSignOptions", "getSeedPhrase.ceremony"}
  /\ op.pc = "idle" => ~hook.phraseLoading

(* Properties of the wallet step of the setup flow. *)
\* C36: the setup flow leaves the wallet-interaction step for
\* YUBIKEY_SUCCESS only when xPub is set, walletError is null and the
\* minimum-time timer, which is started only once the device update has
\* begun, has fired; with a wallet error it leaves for YUBIKEY_ERROR; and
\* YUBIKEY_SUCCESS is entered only from the wallet step, with the passkey
\* registered (credentialId set) and the wallet created.
C36_WalletStepLeaves ==
  [][/\ (ui.step = "YUBIKEY_INTERACT_WALLET" /\ ui'.step = "YUBIKEY_SUCCESS")
          => /\ hook.xPub # NoValue
             /\ hook.walletError = NoError
             /\ ui.minimumTimePassed = "true"
             /\ ui.timerRef
     /\ (ui.step = "YUBIKEY_INTERACT_WALLET" /\ ui'.step # ui.step
           /\ hook.walletError # NoError)
          => ui'.step = "YUBIKEY_ERROR"
     /\ (ui.step = "YUBIKEY_INTERACT_WALLET" /\ ~ui.timerRef /\ ui'.timerRef)
          => hook.deviceUpdateLoading /\ ui'.minimumTimePassed = "false"
     /\ (ui.step # "YUBIKEY_SUCCESS" /\ ui'.step = "YUBIKEY_SUCCESS")
          => /\ ui.step = "YUBIKEY_INTERACT_WALLET"
             /\ hook.credentialId # "null"
             /\ hook.xPub # NoValue
             /\ server = hook.xPub]_vars

C36_Witness ==
  /\ ui.step = "YUBIKEY_SUCCESS"
  /\ hook.credentialId # "null"
  /\ hook.xPub # NoValue
  /\ hook.walletError = NoError

(* Properties of the calls the loading components make. *)
AllLoadingSteps ==
  {"YUBIKEY_INTERACT_PASSKEY", "YUBIKEY_INTERACT_WALLET", "YUBIKEY_EXPORT_LOAD",
   "YUBIKEY_SIGN_LOADING", "YUBIKEY_HEALTH_LOADING"}
OperationCalled ==
  CreatePasskey \/ CreateWallet \/ GetSeedPhrase \/ SignHealthCheck
    \/ SignTransaction

\* C37: a loading step calls its hook operation exactly once per visit.  A
\* step is entered with no call made; the call is made only while none was
\* made in this visit, and records that it was; the record is dropped only
\* when the page shows another step; and the loading step is not left
\* before the call was made.
C37_OneCallPerVisit ==
  [][ui.page # "unused" =>
       /\ OperationCalled
            => /\ ui.step \in AllLoadingSteps
               /\ ~ui.passkeyPrompted
               /\ ui'.passkeyPrompted \/ ui'.step # ui.step
       /\ (~ui.passkeyPrompted /\ ui'.passkeyPrompted) => OperationCalled
       /\ (ui.passkeyPrompted /\ ~ui'.passkeyPrompted) => ui'.step # ui.step
       /\ ui'.step # ui.step => ~ui'.passkeyPrompted
       /\ (ui.step \in AllLoadingSteps /\ ui'.step # ui.step)
            => ui.passkeyPrompted \/ OperationCalled]_vars

\* the wallet step was entered again through try again and has made its call
C37_Witness ==
  /\ ui.page = "setup"
  /\ ui.triedAgain
  /\ ui.step = "YUBIKEY_INTERACT_WALLET"
  /\ ui.passkeyPrompted
  /\ op.pc = "createWallet.getAuthOptions"

(* Properties of resetErrors. *)
ErrorStates == {"passkeyError", "walletError", "signError", "phraseError"}
TryAgain == YubikeyError \/ YubikeySignError \/ ExportError

\* C38: resetErrors sets passkeyError, walletError, signError and
\* phraseError to null and leaves every success state (credentialId, xPub,
\* backupToken, signatureResult, phrase, phraseConfirmed) and every loading
\* flag as it was.
C38_ResetErrorsFrame ==
  [][TryAgain =>
       /\ \A e \in ErrorStates : hook'[e] = NoError
       /\ \A f \in (DOMAIN hook) \ ErrorStates : hook'[f] = hook[f]]_vars

\* try again was used on a wallet error: the errors are null and the
\* credentialId of the registered passkey is still set
C38_Witness ==
  /\ ui.page = "setup"
  /\ ui.triedAgain
  /\ ui.step = "YUBIKEY_INTERACT_WALLET"
  /\ ~ui.passkeyPrompted
  /\ hook.credentialId # "null"
  /\ \A e \in ErrorStates : hook[e] = NoError

(* Properties of the network the Safe collaborator is constructed for. *)
TestnetEthereum == {COIN_teth, COIN_tethC}

\* C39: when signTransaction dispatches a coin to the Gnosis-Safe signing,
\* the Safe collaborator is constructed with isTestnet true for the
\* identifiers that denote testnet Ethereum (TETH, TETHC, in any letter case
\* the dispatch accepts) and with isTestnet false for the mainnet ones.
C39_SafeNetwork ==
  /\ (lib.fn = "signTransaction" /\ lib.safe.st = "object")
       => lib.safe.isTestnet = (toUpperCase(lib.params.coin) \in TestnetEthereum)
  /\ request.safe.st = "object"
       => request.safe.isTestnet
            = (toUpperCase(formatSignTxParams(props.transactionInputs).coin)
                 \in TestnetEthereum)

(* Properties of the confirmation of the exported phrase. *)
ExportTestShown == ui.page = "setup" /\ ui.step = "YUBIKEY_EXPORT_TEST"
SkipSteps ==
  {"YUBIKEY_SUCCESS", "YUBIKEY_EXPORT_START", "YUBIKEY_EXPORT_VIEW",
   "YUBIKEY_EXPORT_TEST"}

\* C40: phraseConfirmed becomes true only in the export test step, by the
\* selection of the word at the target index; the selection of another
\* word, skip and go back leave it as it is; once true it stays true; and
\* the export success step is entered with phraseConfirmed false only by a
\* skip, which changes nothing in the hook.
C40_PhraseConfirmed ==
  [][/\ (~hook.phraseConfirmed /\ hook'.phraseConfirmed)
          => /\ ExportTestShown
             /\ hook.phraseSet
             /\ ui.targetIndex \in 1..Len(hook.phrase)
             /\ ExportTestSelect(ui.targetIndex)
     /\ (ExportTestShown /\ hook.phraseSet)
          => \A selected \in (1..Len(hook.phrase)) \ {ui.targetIndex} :
               ExportTestSelect(selected)
                 => /\ hook' = hook
                    /\ ui'.step = ui.step
                    /\ ui'.selected = selected
     /\ (ExportTestShown /\ ui'.step = "YUBIKEY_EXPORT_VIEW") => hook' = hook
     /\ hook.phraseConfirmed => hook'.phraseConfirmed
     /\ (ui.step # "YUBIKEY_EXPORT_SUCCESS"
           /\ ui'.step = "YUBIKEY_EXPORT_SUCCESS" /\ ~hook'.phraseConfirmed)
          => ui.step \in SkipSteps /\ hook' = hook]_vars

\* a phrase of several words was confirmed and the success step is shown
C40_Witness ==
  /\ ui.page = "setup"
  /\ ui.step = "YUBIKEY_EXPORT_SUCCESS"
  /\ hook.phraseConfirmed
  /\ hook.phraseSet
  /\ Len(hook.phrase) > 1

====
